---- MODULE Spec2Model ----
(***************************************************************************)
(* Deduplication and spatial distribution engine of algolia-cache-render   *)
(* (src/server.js): deduplicateForCollection (coordinate based) and        *)
(* deduplicateByLocationPhotoServer (location photo based, featured first),*)
(* and the two POST endpoints with their cache.                            *)
(*                                                                         *)
(* Data representation                                                     *)
(*   - a handle is the sequence of its "-"-separated segments              *)
(*     ("art-x-40x60" is <<"art","x","40x60">>, "" is <<"">>);             *)
(*   - a title is the sequence of its words and whitespace runs            *)
(*     ("a b " is <<"a"," ","b"," ">>, "" is <<>>);                        *)
(*   - a missing handle or title is Undefined, a missing hits argument     *)
(*     (undefined, null) is NoHits;                                        *)
(*   - latitude and longitude are integers in units of 1e-7 degree,        *)
(*     0 standing for every falsy value (0, undefined, null), and          *)
(*     coordinateType says whether the record holds them as numbers or     *)
(*     as strings;                                                         *)
(*   - google_id, formatted_address, location_photo and meta.featured are  *)
(*     strings, "" standing for every falsy value;                         *)
(*   - a JavaScript object used as a map is a sequence of [key, val]       *)
(*     entries in insertion order, which is the order Object.keys returns  *)
(*     for keys that are not array indices;                                *)
(*   - a product inside the engine is its position in hits, so that two    *)
(*     equal records at different positions stay distinguishable.          *)
(***************************************************************************)
EXTENDS Integers, Sequences, FiniteSets, TLC

VARIABLES
    engine,             \* which function is running: "collection" or "photo"
    pc,                 \* position inside the running function
    hits,               \* argument hits
    maxPerLocation,     \* argument maxPerLocation / maxPerPhoto
    targetProducts,     \* argument targetProducts / maxResults
    uniqueProducts,     \* uniqueProducts of either function
    productsByLocation, \* productsByLocation (collection engine)
    locationKeys,       \* locationKeys
    locationIndex,      \* locationIndex
    locationCounts,     \* locationCounts
    iterations,         \* iterations
    result,             \* result of either function
    featuredQueue,      \* featuredQueue (photo engine)
    regularQueue,       \* regularQueue
    withoutPhoto,       \* featuredGroups.productsWithoutPhoto ++ regularGroups.productsWithoutPhoto
    photoCounters,      \* photoCounters
    placements,         \* history: one record per result.push of a loop
    cache,              \* the Map cache: its entries in insertion order
    now,                \* what Date.now() returns, in milliseconds
    pending,            \* the requests that wait for index.search to settle
    received,           \* number of requests received so far
    response            \* the response sent last

engineVars == <<engine, pc, hits, maxPerLocation, targetProducts, uniqueProducts,
                productsByLocation, locationKeys, locationIndex, locationCounts,
                iterations, result, featuredQueue, regularQueue, withoutPhoto,
                photoCounters, placements>>

serverVars == <<cache, now, pending, received, response>>

vars == <<engineVars, serverVars>>

-----------------------------------------------------------------------------
(* Bounds of the model *)

MaxHits == 3
MaxPer == 2
MaxTarget == 3

-----------------------------------------------------------------------------
(* Generic helpers *)

Undefined == <<"\\undefined">>

\* the argument hits when the caller passes undefined or null
NoHits == <<[undefined |-> TRUE]>>

Min(a, b) == IF a < b THEN a ELSE b

Max(a, b) == IF a > b THEN a ELSE b

Range(s) == {s[i] : i \in 1..Len(s)}

RECURSIVE SumSeq(_)
SumSeq(s) == IF s = <<>> THEN 0 ELSE Head(s) + SumSeq(Tail(s))

\* names every object inherits from Object.prototype: obj[name] is truthy
\* for them although nothing was stored
InheritedKeys ==
    {"constructor", "toString", "valueOf", "hasOwnProperty", "isPrototypeOf",
     "propertyIsEnumerable", "toLocaleString", "__proto__",
     "__defineGetter__", "__defineSetter__", "__lookupGetter__",
     "__lookupSetter__"}

\* ordered map (plain object with non-index keys)
MapHas(m, k) == \E i \in 1..Len(m) : m[i].key = k

MapGet(m, k) == m[CHOOSE i \in 1..Len(m) : m[i].key = k].val

MapKeys(m) == [i \in 1..Len(m) |-> m[i].key]

MapPut(m, k, v) ==
    IF MapHas(m, k)
    THEN [i \in 1..Len(m) |-> IF m[i].key = k THEN [key |-> k, val |-> v] ELSE m[i]]
    ELSE Append(m, [key |-> k, val |-> v])

MapDelete(m, k) == SelectSeq(m, LAMBDA e : e.key # k)

-----------------------------------------------------------------------------
(* Handles: getProductKey, getBaseHandle *)

SizeTokens == {"40x60", "30x40"}

\* handle.split(sep)[0] for sep = "-" \o tok \o "-": the separator occurs
\* where tok is a segment that is neither the first nor the last one
SplitFirst(h, tok) ==
    LET occ == {i \in 2..(Len(h) - 1) : h[i] = tok}
    IN  IF occ = {} THEN h
        ELSE SubSeq(h, 1, (CHOOSE i \in occ : \A j \in occ : i <= j) - 1)

RemoveAt(h, i, n) == SubSeq(h, 1, i - 1) \o SubSeq(h, i + n, Len(h))

\* s.replace(/-\d+x\d+/, ''): the first segment after the first that is a
\* size token
ReplaceSize(h) ==
    LET occ == {i \in 2..Len(h) : h[i] \in SizeTokens}
    IN  IF occ = {} THEN h
        ELSE RemoveAt(h, CHOOSE i \in occ : \A j \in occ : i <= j, 1)

\* s.replace(/-tok/, ''): first occurrence anywhere
ReplaceToken(h, tok) ==
    LET occ == {i \in 2..Len(h) : h[i] = tok}
    IN  IF occ = {} THEN h
        ELSE RemoveAt(h, CHOOSE i \in occ : \A j \in occ : i <= j, 1)

\* s.replace(/-original-painting/, ''): first occurrence anywhere
ReplaceOriginalPainting(h) ==
    LET occ == {i \in 2..(Len(h) - 1) : h[i] = "original" /\ h[i + 1] = "painting"}
    IN  IF occ = {} THEN h
        ELSE RemoveAt(h, CHOOSE i \in occ : \A j \in occ : i <= j, 2)

\* s.replace(/-\d+x\d+$/, ''), s.replace(/-tok$/, ''): anchored at the end
ReplaceSizeAtEnd(h) ==
    IF Len(h) >= 2 /\ h[Len(h)] \in SizeTokens THEN SubSeq(h, 1, Len(h) - 1) ELSE h

ReplaceTokenAtEnd(h, tok) ==
    IF Len(h) >= 2 /\ h[Len(h)] = tok THEN SubSeq(h, 1, Len(h) - 1) ELSE h

ReplaceOriginalPaintingAtEnd(h) ==
    IF Len(h) >= 3 /\ h[Len(h) - 1] = "original" /\ h[Len(h)] = "painting"
    THEN SubSeq(h, 1, Len(h) - 2) ELSE h

\* product.handle || ''
HandleOrEmpty(product) ==
    IF product.handle = Undefined THEN <<"">> ELSE product.handle

getProductKey(product) ==
    LET handle == HandleOrEmpty(product)
        baseHandle == SplitFirst(SplitFirst(handle, "variant"), "v")
    IN  ReplaceToken(ReplaceOriginalPainting(ReplaceSize(baseHandle)), "print")

getBaseHandle(product) ==
    LET handle == HandleOrEmpty(product)
        s1 == SplitFirst(SplitFirst(handle, "variant"), "v")
        s2 == ReplaceSizeAtEnd(s1)
        s3 == ReplaceOriginalPaintingAtEnd(s2)
        s4 == ReplaceTokenAtEnd(s3, "print")
        s5 == ReplaceTokenAtEnd(s4, "canvas")
    IN  ReplaceTokenAtEnd(s5, "paper")

\* seen[key] is truthy: stored by the engine, or inherited
SeenKey(seen, key) ==
    key \in seen \/ (Len(key) = 1 /\ key[1] \in InheritedKeys)

-----------------------------------------------------------------------------
(* Titles: areTitlesSimilar *)

\* toLowerCase on the words of the model's vocabulary
LowerWord(w) ==
    CASE w = "Sunset"  -> "sunset"
      [] w = "Over"    -> "over"
      [] w = "Paris"   -> "paris"
      [] w = "Harbour" -> "harbour"
      [] w = "Lights"  -> "lights"
      [] w = "Old"     -> "old"
      [] w = "Mill"    -> "mill"
      [] w = "Red"     -> "red"
      [] w = "Roof"    -> "roof"
      [] w = "At"      -> "at"
      [] OTHER         -> w

\* number of characters of a lower-cased word of the vocabulary
WordLength(w) ==
    CASE w = ""        -> 0
      [] w = "at"      -> 2
      [] w = "old"     -> 3
      [] w = "red"     -> 3
      [] w = "over"    -> 4
      [] w = "mill"    -> 4
      [] w = "roof"    -> 4
      [] w = "paris"   -> 5
      [] w = "sunset"  -> 6
      [] w = "lights"  -> 6
      [] w = "harbour" -> 7

IsSpace(p) == p = " "

RECURSIVE TrimLeft(_)
TrimLeft(t) == IF t # <<>> /\ IsSpace(Head(t)) THEN TrimLeft(Tail(t)) ELSE t

RECURSIVE TrimRight(_)
TrimRight(t) ==
    IF t # <<>> /\ IsSpace(t[Len(t)]) THEN TrimRight(SubSeq(t, 1, Len(t) - 1)) ELSE t

\* title.toLowerCase().trim()
LowerTrim(t) ==
    LET trimmed == TrimRight(TrimLeft(t))
    IN  [i \in 1..Len(trimmed) |-> LowerWord(trimmed[i])]

\* t.split(/\s+/) of a trimmed title: its words; the empty string gives [""]
SplitWords(t) ==
    IF t = <<>> THEN <<"">> ELSE SelectSeq(t, LAMBDA p : ~IsSpace(p))

\* !title: undefined and the empty string are falsy
TitleFalsy(title) == title = Undefined \/ title = <<>>

\* faulty variant of areTitlesSimilar: without the test t1 === t2
areTitlesSimilarByWords(title1, title2, threshold) ==
    IF TitleFalsy(title1) \/ TitleFalsy(title2) THEN FALSE
    ELSE LET words1 == SplitWords(LowerTrim(title1))
             words2 == SplitWords(LowerTrim(title2))
             commonWords == Cardinality({i \in 1..Len(words1) :
                                WordLength(words1[i]) > 2 /\ words1[i] \in Range(words2)})
         IN  10 * (commonWords * 2) >= threshold * (Len(words1) + Len(words2))

\* similarity >= threshold, the threshold given in tenths (0.8 is 8)
areTitlesSimilar(title1, title2, threshold) ==
    IF TitleFalsy(title1) \/ TitleFalsy(title2) THEN FALSE
    ELSE LET t1 == LowerTrim(title1)
             t2 == LowerTrim(title2)
             words1 == SplitWords(t1)
             words2 == SplitWords(t2)
             commonWords == Cardinality({i \in 1..Len(words1) :
                                WordLength(words1[i]) > 2 /\ words1[i] \in Range(words2)})
         IN  IF t1 = t2 THEN TRUE
             ELSE 10 * (commonWords * 2) >= threshold * (Len(words1) + Len(words2))

\* product.title || ''
TitleOrEmpty(product) ==
    IF product.title = Undefined THEN <<>> ELSE product.title

-----------------------------------------------------------------------------
(* Location keys: getLocationKey, getLocationPhoto, isFeatured *)

\* x.toFixed(6) of a value given in units of 1e-7 degree: the text is the
\* sign "-" for x < 0, also when the digits are all 0, and the digits of
\* |x| rounded to 1e-6 degree, held as their number (values whose seventh
\* decimal is 5 are not used)
ToFixed6(x) ==
    [sign |-> IF x < 0 THEN "-" ELSE "",
     digits |-> ((IF x < 0 THEN 0 - x ELSE x) + 5) \div 10]

\* the coordinate part of a location key that holds no coordinates
NoCoordinates == [sign |-> "", digits |-> 0]

getLocationKey(product) ==
    LET details == product.details
    IN  IF details.latitude # 0 /\ details.longitude # 0
        THEN [kind |-> "coordinates", lat |-> ToFixed6(details.latitude),
              lng |-> ToFixed6(details.longitude), id |-> <<>>]
        ELSE IF details.google_id # ""
        THEN [kind |-> "google_id", lat |-> NoCoordinates, lng |-> NoCoordinates,
              id |-> <<details.google_id>>]
        ELSE IF details.formatted_address # ""
        THEN [kind |-> "address", lat |-> NoCoordinates, lng |-> NoCoordinates,
              id |-> <<details.formatted_address>>]
        ELSE [kind |-> "unique", lat |-> NoCoordinates, lng |-> NoCoordinates,
              id |-> IF product.handle = Undefined THEN <<"undefined">>
                     ELSE product.handle]

\* details.latitude.toFixed(6) and details.longitude.toFixed(6) throw a
\* TypeError when both values are truthy and not numbers
getLocationKeyThrows(product) ==
    LET details == product.details
    IN  /\ details.latitude # 0 /\ details.longitude # 0
        /\ details.coordinateType # "number"

\* product.meta?.location?.details?.location_photo || null ("" is null)
getLocationPhoto(product) == product.details.location_photo

\* faulty variant of isFeatured: the test is inverted
isFeaturedInverted(product) == product.featured # "yes"

\* product.meta?.featured === 'yes'
isFeatured(product) == product.featured = "yes"

-----------------------------------------------------------------------------
(* deduplicateForCollection, step 1: remove product duplicates *)

\* faulty variant of isSimilarToExisting: only the product kept last is
\* compared
isSimilarToLast(hs, unique, title) ==
    unique # <<>> /\ areTitlesSimilar(title, hs[unique[Len(unique)]].title, 8)

\* uniqueProducts.some(existing => areTitlesSimilar(title, existing.title, 0.8))
isSimilarToExisting(hs, unique, title) ==
    \E i \in 1..Len(unique) : areTitlesSimilar(title, hs[unique[i]].title, 8)

\* the test `if (seenProducts[productKey]) return;`
AlreadySeen(seen, productKey) == SeenKey(seen, productKey)

\* hits.forEach of step 1 from position p on; seen is the set of keys stored
\* in seenProducts, unique the positions pushed to uniqueProducts so far
RECURSIVE CollapseCollection(_, _, _, _)
CollapseCollection(hs, p, seen, unique) ==
    IF p > Len(hs) THEN unique
    ELSE LET productKey == getProductKey(hs[p])
             title == TitleOrEmpty(hs[p])
         IN  IF AlreadySeen(seen, productKey)
             THEN CollapseCollection(hs, p + 1, seen, unique)
             ELSE IF isSimilarToExisting(hs, unique, title)
             THEN CollapseCollection(hs, p + 1, seen, unique)
             ELSE CollapseCollection(hs, p + 1, seen \cup {productKey},
                                     Append(unique, p))

(* step 2: group by location key *)

\* faulty variant of GroupByLocation: a product is put in front of its group
RECURSIVE GroupByLocationInFront(_, _, _)
GroupByLocationInFront(hs, unique, byLocation) ==
    IF unique = <<>> THEN byLocation
    ELSE LET locationKey == getLocationKey(hs[Head(unique)])
             old == IF MapHas(byLocation, locationKey)
                    THEN MapGet(byLocation, locationKey) ELSE <<>>
         IN  GroupByLocationInFront(hs, Tail(unique),
                                    MapPut(byLocation, locationKey, <<Head(unique)>> \o old))

\* uniqueProducts.forEach(product => productsByLocation[key].push(product))
RECURSIVE GroupByLocation(_, _, _)
GroupByLocation(hs, unique, byLocation) ==
    IF unique = <<>> THEN byLocation
    ELSE LET locationKey == getLocationKey(hs[Head(unique)])
             old == IF MapHas(byLocation, locationKey)
                    THEN MapGet(byLocation, locationKey) ELSE <<>>
         IN  GroupByLocation(hs, Tail(unique),
                             MapPut(byLocation, locationKey, Append(old, Head(unique))))

(* step 2: the distribution loop *)

\* locationCounts[locationKey] || 0, photoCounters[uuid] || 0
CountOf(counts, key) == IF MapHas(counts, key) THEN MapGet(counts, key) ELSE 0

\* faulty variant of maxIterations: each entry of the cache takes one of
\* the two rounds away
maxIterationsShared == Len(uniqueProducts) * (2 - Len(cache))

\* maxIterations = uniqueProducts.length * 2
maxIterations == Len(uniqueProducts) * 2

\* faulty variant of BelowTarget: the comparison admits equality
BelowTargetInclusive(res, target) == Len(res) <= target

\* result.length < targetProducts, tested by the while and by the for
BelowTarget(res, target) == Len(res) < target

\* the while condition
LoopCondition ==
    /\ BelowTarget(result, targetProducts)
    /\ iterations < maxIterations
    /\ Len(locationKeys) > 0

\* currentLocationIndex = (locationIndex + i) % locationKeys.length, 1-based
currentLocationIndex(i) == ((locationIndex + i) % Len(locationKeys)) + 1

\* !productsAtLocation || productsAtLocation.length === 0
NoProductsAt(byLocation, locationKey) ==
    \/ ~MapHas(byLocation, locationKey)
    \/ MapGet(byLocation, locationKey) = <<>>

\* faulty variant of CapReached: the comparison is strict
CapExceeded(currentCount, maxPer) == currentCount > maxPer

\* currentCount >= maxPerLocation
CapReached(currentCount, maxPer) == currentCount >= maxPer

\* faulty variant of canPlace: the comparison is inverted
canPlaceInverted(hs, res, locationKey) ==
    IF Len(res) > 0
    THEN getLocationKey(hs[res[Len(res)]]) = locationKey
    ELSE TRUE

\* canPlace: false when the last placed product has this location key
canPlace(hs, res, locationKey) ==
    IF Len(res) > 0
    THEN getLocationKey(hs[res[Len(res)]]) # locationKey
    ELSE TRUE

\* the body of the for loop reaches result.push at step i
PlacesAt(i) ==
    LET locationKey == locationKeys[currentLocationIndex(i)]
    IN  /\ BelowTarget(result, targetProducts)
        /\ ~NoProductsAt(productsByLocation, locationKey)
        /\ ~CapReached(CountOf(locationCounts, locationKey), maxPerLocation)
        /\ canPlace(hits, result, locationKey)

\* faulty variant of AfterShift: the product is read and not removed
AfterShiftKept(productsAtLocation) == productsAtLocation

\* what productsAtLocation holds after productsAtLocation.shift()
AfterShift(productsAtLocation) == Tail(productsAtLocation)

\* location keys whose group holds a product the cap still allows
PlaceableKeys ==
    {locationKeys[i] : i \in {j \in 1..Len(locationKeys) :
        /\ ~NoProductsAt(productsByLocation, locationKeys[j])
        /\ ~CapReached(CountOf(locationCounts, locationKeys[j]), maxPerLocation)}}

\* location key of the last placed product, as a sequence of at most one key
LastLocationKey(hs, res) ==
    IF res = <<>> THEN <<>> ELSE <<getLocationKey(hs[res[Len(res)]])>>

-----------------------------------------------------------------------------
(* deduplicateByLocationPhotoServer *)

\* faulty variant of BaseHandleSeen: stored base handles are not found
BaseHandleNotFound(seen, baseHandle) == FALSE

\* the test `!seenBaseHandles[baseHandle]` negated
BaseHandleSeen(seen, baseHandle) == SeenKey(seen, baseHandle)

\* step 1: hits.forEach from position p on
RECURSIVE CollapsePhoto(_, _, _, _)
CollapsePhoto(hs, p, seen, unique) ==
    IF p > Len(hs) THEN unique
    ELSE LET baseHandle == getBaseHandle(hs[p])
         IN  IF BaseHandleSeen(seen, baseHandle)
             THEN CollapsePhoto(hs, p + 1, seen, unique)
             ELSE CollapsePhoto(hs, p + 1, seen \cup {baseHandle}, Append(unique, p))

\* step 3: groupByLocationPhoto, products.forEach from the head of products
RECURSIVE groupByLocationPhotoFrom(_, _, _)
groupByLocationPhotoFrom(hs, products, groups) ==
    IF products = <<>> THEN groups
    ELSE LET locationPhoto == getLocationPhoto(hs[Head(products)])
             byPhoto == groups.productsByPhoto
             old == IF MapHas(byPhoto, locationPhoto)
                    THEN MapGet(byPhoto, locationPhoto) ELSE <<>>
         IN  groupByLocationPhotoFrom(hs, Tail(products),
                IF locationPhoto # ""
                THEN [groups EXCEPT !.productsByPhoto =
                        MapPut(byPhoto, locationPhoto, Append(old, Head(products)))]
                ELSE [groups EXCEPT !.productsWithoutPhoto =
                        Append(@, Head(products))])

\* productsByPhoto[locationPhoto] is truthy for a photo that names an
\* inherited property, so no array is stored for it, and the inherited
\* value has no push: productsByPhoto[locationPhoto].push(product) throws
groupByLocationPhotoThrows(hs, products) ==
    \E i \in 1..Len(products) : getLocationPhoto(hs[products[i]]) \in InheritedKeys

groupByLocationPhoto(hs, products) ==
    groupByLocationPhotoFrom(hs, products,
        [productsByPhoto |-> <<>>, productsWithoutPhoto |-> <<>>])

\* faulty variant of QueueRound: every round takes the group's first product
RECURSIVE QueueRoundFirst(_, _, _, _)
QueueRoundFirst(hs, productsByPhoto, round, i) ==
    IF i > Len(productsByPhoto) THEN <<>>
    ELSE LET e == productsByPhoto[i]
         IN  (IF Len(e.val) > round
              THEN <<[uuid |-> e.key, product |-> e.val[1], round |-> round,
                      featured |-> isFeatured(hs[e.val[1]])]>>
              ELSE <<>>)
             \o QueueRoundFirst(hs, productsByPhoto, round, i + 1)

\* photoUUIDs.forEach of one round, from entry i of productsByPhoto on
RECURSIVE QueueRound(_, _, _, _)
QueueRound(hs, productsByPhoto, round, i) ==
    IF i > Len(productsByPhoto) THEN <<>>
    ELSE LET e == productsByPhoto[i]
         IN  (IF Len(e.val) > round
              THEN <<[uuid |-> e.key, product |-> e.val[round + 1], round |-> round,
                      featured |-> isFeatured(hs[e.val[round + 1]])]>>
              ELSE <<>>)
             \o QueueRound(hs, productsByPhoto, round, i + 1)

\* the rounds round, round + 1, ..., maxRounds - 1
RECURSIVE QueueRounds(_, _, _, _)
QueueRounds(hs, productsByPhoto, round, maxRounds) ==
    IF round >= maxRounds THEN <<>>
    ELSE QueueRound(hs, productsByPhoto, round, 1)
         \o QueueRounds(hs, productsByPhoto, round + 1, maxRounds)

\* faulty variant of createDistributionQueue: the loops are nested the other
\* way round, photo by photo instead of round by round
RECURSIVE QueueByPhoto(_, _, _, _)
QueueByPhoto(hs, productsByPhoto, maxRounds, i) ==
    IF i > Len(productsByPhoto) THEN <<>>
    ELSE LET e == productsByPhoto[i]
         IN  [r \in 1..Min(Max(maxRounds, 0), Len(e.val)) |->
                 [uuid |-> e.key, product |-> e.val[r], round |-> r - 1,
                  featured |-> isFeatured(hs[e.val[r]])]]
             \o QueueByPhoto(hs, productsByPhoto, maxRounds, i + 1)

createDistributionQueueByPhoto(hs, productsByPhoto, maxRounds) ==
    QueueByPhoto(hs, productsByPhoto, maxRounds, 1)

\* step 4
createDistributionQueue(hs, productsByPhoto, maxRounds) ==
    QueueRounds(hs, productsByPhoto, 0, maxRounds)

\* the condition of the two while loops of step 5
QueueLoopCondition(res, maxResults, queue) ==
    Len(res) < maxResults /\ Len(queue) > 0

\* faulty variant of BelowPhotoCap: the comparison admits equality
BelowPhotoCapInclusive(currentCount, maxPerPhoto) == currentCount <= maxPerPhoto

\* currentCount < maxPerPhoto
BelowPhotoCap(currentCount, maxPerPhoto) == currentCount < maxPerPhoto

\* photos of the queue entries that the counters still allow
PlaceablePhotos(queue, counters, maxPerPhoto) ==
    {queue[i].uuid : i \in {j \in 1..Len(queue) :
        BelowPhotoCap(CountOf(counters, queue[j].uuid), maxPerPhoto)}}

\* location photo of the last placed product, as a sequence of at most one
LastLocationPhoto(hs, res) ==
    IF res = <<>> THEN <<>> ELSE <<getLocationPhoto(hs[res[Len(res)]])>>

\* faulty variant of SliceFront: nothing is cut off
SliceFrontWhole(s, n) == s

\* allProductsWithoutPhoto.slice(0, remainingSlots)
SliceFront(s, n) == SubSeq(s, 1, Min(n, Len(s)))

-----------------------------------------------------------------------------
(* The two functions as operators: the positions of hs a call returns, for
   the callers in the endpoints *)

\* the while loop of deduplicateForCollection, from the loop state st on
RECURSIVE DistributeByLocation(_, _, _, _, _)
DistributeByLocation(hs, maxPer, target, maxIter, st) ==
    IF ~(/\ BelowTarget(st.result, target)
         /\ st.iterations < maxIter
         /\ Len(st.locationKeys) > 0)
    THEN st.result
    ELSE LET keyAt(i) ==
                 st.locationKeys[((st.locationIndex + i) % Len(st.locationKeys)) + 1]
             steps == {i \in 0..(Len(st.locationKeys) - 1) :
                          /\ BelowTarget(st.result, target)
                          /\ ~NoProductsAt(st.productsByLocation, keyAt(i))
                          /\ ~CapReached(CountOf(st.locationCounts, keyAt(i)), maxPer)
                          /\ canPlace(hs, st.result, keyAt(i))}
         IN  IF steps = {} THEN st.result
             ELSE LET i == CHOOSE k \in steps : \A m \in steps : k <= m
                      locationKey == keyAt(i)
                      productsAtLocation == MapGet(st.productsByLocation, locationKey)
                      currentCount == CountOf(st.locationCounts, locationKey)
                      rest == AfterShift(productsAtLocation)
                      byLocation == IF Len(rest) = 0
                                    THEN MapDelete(st.productsByLocation, locationKey)
                                    ELSE MapPut(st.productsByLocation, locationKey, rest)
                      keys == IF Len(rest) = 0 THEN MapKeys(byLocation)
                              ELSE st.locationKeys
                  IN  DistributeByLocation(hs, maxPer, target, maxIter,
                          [productsByLocation |-> byLocation,
                           locationKeys |-> keys,
                           locationIndex |-> (st.locationIndex + 1) % Max(1, Len(keys)),
                           locationCounts |->
                               MapPut(st.locationCounts, locationKey, currentCount + 1),
                           iterations |-> st.iterations + 1,
                           result |-> Append(st.result, Head(productsAtLocation))])

\* deduplicateForCollection(hits, maxPerLocation, targetProducts), hits an
\* array of hits whose coordinates are numbers
deduplicateForCollection(hs, maxPer, target) ==
    LET unique == CollapseCollection(hs, 1, {}, <<>>)
        byLocation == GroupByLocation(hs, unique, <<>>)
    IN  DistributeByLocation(hs, maxPer, target, Len(unique) * 2,
            [productsByLocation |-> byLocation,
             locationKeys |-> MapKeys(byLocation),
             locationIndex |-> 0,
             locationCounts |-> <<>>,
             iterations |-> 0,
             result |-> <<>>])

\* one of the two while loops of step 5, from st = [result, photoCounters] on
RECURSIVE DrainQueue(_, _, _, _)
DrainQueue(queue, maxResults, maxPerPhoto, st) ==
    IF ~QueueLoopCondition(st.result, maxResults, queue) THEN st
    ELSE LET nextItem == Head(queue)
             currentCount == CountOf(st.photoCounters, nextItem.uuid)
         IN  DrainQueue(Tail(queue), maxResults, maxPerPhoto,
                 IF BelowPhotoCap(currentCount, maxPerPhoto)
                 THEN [result |-> Append(st.result, nextItem.product),
                       photoCounters |->
                           MapPut(st.photoCounters, nextItem.uuid, currentCount + 1)]
                 ELSE st)

\* deduplicateByLocationPhotoServer(hits, maxResults, maxPerPhoto), hits an
\* array: whether the call threw, and the result when it did not
deduplicateByLocationPhotoServer(hs, maxResults, maxPerPhoto) ==
    LET unique == CollapsePhoto(hs, 1, {}, <<>>)
        featuredProducts == SelectSeq(unique, LAMBDA p : isFeatured(hs[p]))
        regularProducts == SelectSeq(unique, LAMBDA p : ~isFeatured(hs[p]))
        featuredGroups == groupByLocationPhoto(hs, featuredProducts)
        regularGroups == groupByLocationPhoto(hs, regularProducts)
        afterFeatured ==
            DrainQueue(createDistributionQueue(hs, featuredGroups.productsByPhoto,
                                               maxPerPhoto),
                       maxResults, maxPerPhoto,
                       [result |-> <<>>, photoCounters |-> <<>>])
        afterRegular ==
            DrainQueue(createDistributionQueue(hs, regularGroups.productsByPhoto,
                                               maxPerPhoto),
                       maxResults, maxPerPhoto, afterFeatured)
        remainingSlots == maxResults - Len(afterRegular.result)
        allProductsWithoutPhoto == featuredGroups.productsWithoutPhoto
                                   \o regularGroups.productsWithoutPhoto
    IN  IF groupByLocationPhotoThrows(hs, unique)
        THEN [threw |-> TRUE, result |-> <<>>]
        ELSE [threw |-> FALSE,
              result |-> IF remainingSlots > 0
                         THEN afterRegular.result
                              \o SliceFront(allProductsWithoutPhoto, remainingSlots)
                         ELSE afterRegular.result]

-----------------------------------------------------------------------------
(* Inputs *)

Details(lat, lng, gid, addr, photo) ==
    [latitude |-> lat, longitude |-> lng, coordinateType |-> "number",
     google_id |-> gid, formatted_address |-> addr, location_photo |-> photo]

\* location details whose latitude and longitude are strings
TextDetails(lat, lng, gid, addr, photo) ==
    [Details(lat, lng, gid, addr, photo) EXCEPT !.coordinateType = "string"]

Hit(handle, title, details, featured) ==
    [handle |-> handle, title |-> title, details |-> details, featured |-> featured]

\* the products of the index, in the order in which a response lists
\* them: product 3 carries the title of product 1 in another spelling
Products ==
    << [handle |-> <<"art", "a">>, title |-> <<"Sunset", " ", "Over", " ", "Paris">>],
       [handle |-> <<"art", "b">>, title |-> <<"Harbour", " ", "Lights">>],
       [handle |-> <<"art", "c">>, title |-> <<"sunset", " ", "over", " ", "paris", " ">>],
       [handle |-> <<"art", "d">>, title |-> <<"Old", " ", "Mill">>],
       [handle |-> <<"art", "e">>, title |-> <<"Red", " ", "Roof">>],
       [handle |-> <<"art", "f">>, title |-> <<"At", " ", "Lights">>] >>

\* a size variant of product 1, indexed without a title
SizeVariant == [handle |-> <<"art", "a", "40x60">>, title |-> Undefined]

\* the records the index can list at position i
ProductsAt(i) == {Products[i], SizeVariant}

\* location details seen by the coordinate based engine: coordinates (with
\* a place id), a place id without a longitude, nothing
CollectionDetails ==
    { Details(488566004, 23522001, "g9", "", ""),
      Details(488566004, 0, "g1", "a1", ""),
      Details(0, 0, "", "", "") }

\* location details seen by the photo based engine
PhotoDetails ==
    { Details(0, 0, "", "", "p1"), Details(0, 0, "", "", "p2"),
      Details(0, 0, "", "", "") }

FeaturedValues == {"yes", ""}

\* the size variant is listed as a regular product, with photo p1 or
\* without photo
PhotoHitsAt(i) ==
    {Hit(Products[i].handle, Products[i].title, d, f) :
        d \in PhotoDetails, f \in FeaturedValues}
    \cup {Hit(SizeVariant.handle, SizeVariant.title, d, "") :
        d \in {Details(0, 0, "", "", "p1"), Details(0, 0, "", "", "")}}

CollectionHitsAt(i) ==
    {Hit(c.handle, c.title, d, "") : c \in ProductsAt(i), d \in CollectionDetails}

\* the hits a response to the engine eng can list at position i
HitsAt(eng, i) == IF eng = "collection" THEN CollectionHitsAt(i) ELSE PhotoHitsAt(i)

\* the responses of at most MaxHits hits
HitSequences(eng) ==
    UNION { {hs \in [1..n -> UNION {HitsAt(eng, i) : i \in 1..n}] :
                \A i \in 1..n : hs[i] \in HitsAt(eng, i)} : n \in 0..MaxHits }

-----------------------------------------------------------------------------
(* State machine: one call of one of the two functions *)

\* no response was sent yet
NoResponse ==
    [id |-> 0, endpoint |-> "", body |-> [none |-> TRUE], cacheKey |-> <<>>,
     status |-> 0, cached |-> FALSE, cacheAge |-> 0, data |-> [none |-> TRUE],
     writer |-> [none |-> TRUE]]

\* the server right after start: an empty cache, no request
ServerIdle ==
    /\ cache = <<>>
    /\ now = 0
    /\ pending = {}
    /\ received = 0
    /\ response = NoResponse

Init ==
    /\ engine \in {"collection", "photo"}
    /\ hits \in HitSequences(engine)
    /\ maxPerLocation \in 0..MaxPer
    /\ targetProducts \in 0..MaxTarget
    /\ pc = "collapse"
    /\ uniqueProducts = <<>>
    /\ productsByLocation = <<>>
    /\ locationKeys = <<>>
    /\ locationIndex = 0
    /\ locationCounts = <<>>
    /\ iterations = 0
    /\ result = <<>>
    /\ featuredQueue = <<>>
    /\ regularQueue = <<>>
    /\ withoutPhoto = <<>>
    /\ photoCounters = <<>>
    /\ placements = <<>>
    /\ ServerIdle

\* deduplicateForCollection, step 1; hits.forEach throws a TypeError when
\* hits is undefined or null
CollectionCollapse ==
    /\ engine = "collection" /\ pc = "collapse"
    /\ IF hits = NoHits
       THEN /\ pc' = "threw"
            /\ UNCHANGED uniqueProducts
       ELSE /\ uniqueProducts' = CollapseCollection(hits, 1, {}, <<>>)
            /\ pc' = "group"
    /\ UNCHANGED <<serverVars, engine, hits, maxPerLocation, targetProducts, productsByLocation,
                   locationKeys, locationIndex, locationCounts, iterations, result,
                   featuredQueue, regularQueue, withoutPhoto, photoCounters,
                   placements>>

\* step 2 up to the while loop; getLocationKey throws a TypeError at a
\* product whose coordinates are not numbers
CollectionGroup ==
    /\ engine = "collection" /\ pc = "group"
    /\ IF \E i \in 1..Len(uniqueProducts) : getLocationKeyThrows(hits[uniqueProducts[i]])
       THEN /\ pc' = "threw"
            /\ UNCHANGED <<productsByLocation, locationKeys>>
       ELSE /\ productsByLocation' = GroupByLocation(hits, uniqueProducts, <<>>)
            /\ locationKeys' = MapKeys(productsByLocation')
            /\ pc' = "loop"
    /\ locationIndex' = 0
    /\ iterations' = 0
    /\ UNCHANGED <<serverVars, engine, hits, maxPerLocation, targetProducts, uniqueProducts,
                   locationCounts, result, featuredQueue, regularQueue,
                   withoutPhoto, photoCounters, placements>>

\* one iteration of the while loop
CollectionIterate ==
    /\ engine = "collection" /\ pc = "loop"
    /\ LoopCondition
    /\ iterations' = iterations + 1
    /\ LET steps == {i \in 0..(Len(locationKeys) - 1) : PlacesAt(i)}
       IN  IF steps = {}
           THEN \* foundProduct stays false: break
                /\ pc' = "done"
                /\ UNCHANGED <<productsByLocation, locationKeys, locationIndex,
                               locationCounts, result, placements>>
           ELSE LET i == CHOOSE k \in steps : \A m \in steps : k <= m
                    locationKey == locationKeys[currentLocationIndex(i)]
                    productsAtLocation == MapGet(productsByLocation, locationKey)
                    currentCount == CountOf(locationCounts, locationKey)
                    product == Head(productsAtLocation)
                    rest == AfterShift(productsAtLocation)
                    byLocation == IF Len(rest) = 0
                                  THEN MapDelete(productsByLocation, locationKey)
                                  ELSE MapPut(productsByLocation, locationKey, rest)
                    keys == IF Len(rest) = 0 THEN MapKeys(byLocation) ELSE locationKeys
                IN  /\ result' = Append(result, product)
                    /\ locationCounts' = MapPut(locationCounts, locationKey, currentCount + 1)
                    /\ productsByLocation' = byLocation
                    /\ locationKeys' = keys
                    /\ locationIndex' = (locationIndex + 1) % Max(1, Len(keys))
                    /\ placements' = Append(placements,
                          [key |-> locationKey,
                           prev |-> LastLocationKey(hits, result),
                           placeable |-> PlaceableKeys,
                           later |-> {},
                           tier |-> "collection",
                           first |-> FALSE])
                    /\ pc' = "loop"
    /\ UNCHANGED <<serverVars, engine, hits, maxPerLocation, targetProducts, uniqueProducts,
                   featuredQueue, regularQueue, withoutPhoto, photoCounters>>

\* the while condition fails: return result
CollectionReturn ==
    /\ engine = "collection" /\ pc = "loop"
    /\ ~LoopCondition
    /\ pc' = "done"
    /\ UNCHANGED <<serverVars, engine, hits, maxPerLocation, targetProducts, uniqueProducts,
                   productsByLocation, locationKeys, locationIndex, locationCounts,
                   iterations, result, featuredQueue, regularQueue, withoutPhoto,
                   photoCounters, placements>>

\* deduplicateByLocationPhotoServer, step 1; hits.length and hits.forEach
\* throw a TypeError when hits is undefined or null
PhotoCollapse ==
    /\ engine = "photo" /\ pc = "collapse"
    /\ IF hits = NoHits
       THEN /\ pc' = "threw"
            /\ UNCHANGED uniqueProducts
       ELSE /\ uniqueProducts' = CollapsePhoto(hits, 1, {}, <<>>)
            /\ pc' = "queues"
    /\ UNCHANGED <<serverVars, engine, hits, maxPerLocation, targetProducts, productsByLocation,
                   locationKeys, locationIndex, locationCounts, iterations, result,
                   featuredQueue, regularQueue, withoutPhoto, photoCounters,
                   placements>>

\* steps 2 to 4: split the tiers, group by photo, build the queues;
\* groupByLocationPhoto throws a TypeError at a product whose photo names
\* an inherited property
PhotoQueues ==
    /\ engine = "photo" /\ pc = "queues"
    /\ IF groupByLocationPhotoThrows(hits, uniqueProducts)
       THEN /\ pc' = "threw"
            /\ UNCHANGED <<featuredQueue, regularQueue, withoutPhoto>>
       ELSE /\ LET featuredProducts ==
                       SelectSeq(uniqueProducts, LAMBDA p : isFeatured(hits[p]))
                   regularProducts ==
                       SelectSeq(uniqueProducts, LAMBDA p : ~isFeatured(hits[p]))
                   featuredGroups == groupByLocationPhoto(hits, featuredProducts)
                   regularGroups == groupByLocationPhoto(hits, regularProducts)
               IN  /\ featuredQueue' = createDistributionQueue(hits,
                                          featuredGroups.productsByPhoto, maxPerLocation)
                   /\ regularQueue' = createDistributionQueue(hits,
                                          regularGroups.productsByPhoto, maxPerLocation)
                   /\ withoutPhoto' = featuredGroups.productsWithoutPhoto
                                      \o regularGroups.productsWithoutPhoto
            /\ pc' = "featured"
    /\ UNCHANGED <<serverVars, engine, hits, maxPerLocation, targetProducts, uniqueProducts,
                   productsByLocation, locationKeys, locationIndex, locationCounts,
                   iterations, result, photoCounters, placements>>

\* one iteration of a queue draining loop of step 5: queue.shift(), and the
\* push when the photo's counter allows it
DrainOne(queue, laterQueue, tier) ==
    LET nextItem == Head(queue)
        currentCount == CountOf(photoCounters, nextItem.uuid)
    IN  IF BelowPhotoCap(currentCount, maxPerLocation)
        THEN /\ result' = Append(result, nextItem.product)
             /\ photoCounters' = MapPut(photoCounters, nextItem.uuid, currentCount + 1)
             /\ placements' = Append(placements,
                   [key |-> nextItem.uuid,
                    prev |-> LastLocationPhoto(hits, result),
                    placeable |-> PlaceablePhotos(queue, photoCounters, maxPerLocation),
                    later |-> PlaceablePhotos(laterQueue, photoCounters, maxPerLocation),
                    tier |-> tier,
                    first |-> (placements = <<>>
                               \/ placements[Len(placements)].tier # tier)])
        ELSE UNCHANGED <<result, photoCounters, placements>>

FeaturedIterate ==
    /\ engine = "photo" /\ pc = "featured"
    /\ QueueLoopCondition(result, targetProducts, featuredQueue)
    /\ featuredQueue' = Tail(featuredQueue)
    /\ DrainOne(featuredQueue, regularQueue, "featured")
    /\ UNCHANGED <<serverVars, engine, pc, hits, maxPerLocation, targetProducts, uniqueProducts,
                   productsByLocation, locationKeys, locationIndex, locationCounts,
                   iterations, regularQueue, withoutPhoto>>

FeaturedExit ==
    /\ engine = "photo" /\ pc = "featured"
    /\ ~QueueLoopCondition(result, targetProducts, featuredQueue)
    /\ pc' = "regular"
    /\ UNCHANGED <<serverVars, engine, hits, maxPerLocation, targetProducts, uniqueProducts,
                   productsByLocation, locationKeys, locationIndex, locationCounts,
                   iterations, result, featuredQueue, regularQueue, withoutPhoto,
                   photoCounters, placements>>

RegularIterate ==
    /\ engine = "photo" /\ pc = "regular"
    /\ QueueLoopCondition(result, targetProducts, regularQueue)
    /\ regularQueue' = Tail(regularQueue)
    /\ DrainOne(regularQueue, <<>>, "regular")
    /\ UNCHANGED <<serverVars, engine, pc, hits, maxPerLocation, targetProducts, uniqueProducts,
                   productsByLocation, locationKeys, locationIndex, locationCounts,
                   iterations, featuredQueue, withoutPhoto>>

RegularExit ==
    /\ engine = "photo" /\ pc = "regular"
    /\ ~QueueLoopCondition(result, targetProducts, regularQueue)
    /\ pc' = "without"
    /\ UNCHANGED <<serverVars, engine, hits, maxPerLocation, targetProducts, uniqueProducts,
                   productsByLocation, locationKeys, locationIndex, locationCounts,
                   iterations, result, featuredQueue, regularQueue, withoutPhoto,
                   photoCounters, placements>>

\* products without location photo fill the remaining slots; return result
PhotoWithout ==
    /\ engine = "photo" /\ pc = "without"
    /\ LET remainingSlots == targetProducts - Len(result)
       IN  result' = IF remainingSlots > 0
                     THEN result \o SliceFront(withoutPhoto, remainingSlots)
                     ELSE result
    /\ pc' = "done"
    /\ UNCHANGED <<serverVars, engine, hits, maxPerLocation, targetProducts, uniqueProducts,
                   productsByLocation, locationKeys, locationIndex, locationCounts,
                   iterations, featuredQueue, regularQueue, withoutPhoto,
                   photoCounters, placements>>

Next ==
    \/ CollectionCollapse
    \/ CollectionGroup
    \/ CollectionIterate
    \/ CollectionReturn
    \/ PhotoCollapse
    \/ PhotoQueues
    \/ FeaturedIterate
    \/ FeaturedExit
    \/ RegularIterate
    \/ RegularExit
    \/ PhotoWithout

Spec == Init /\ [][Next]_vars

-----------------------------------------------------------------------------
(* Scenario A of the specification: five products without variants and with
   pairwise dissimilar titles, three at one place and two at another, in any
   order; maxPerGroup = 2, targetCount = 4 *)

ScenarioAProducts == <<Products[1], Products[2], Products[4], Products[5], Products[6]>>

ScenarioAPlaces(eng) ==
    IF eng = "collection"
    THEN <<Details(488566004, 23522001, "", "", ""), Details(0, 0, "g1", "", "")>>
    ELSE <<Details(0, 0, "", "", "p1"), Details(0, 0, "", "", "p2")>>

\* the hits: `at` says which positions are at the first place, `tiers`
\* which are featured
ScenarioAHits(eng, at, tiers) ==
    [i \in 1..Len(ScenarioAProducts) |->
        Hit(ScenarioAProducts[i].handle, ScenarioAProducts[i].title,
            ScenarioAPlaces(eng)[IF i \in at THEN 1 ELSE 2],
            IF i \in tiers THEN "yes" ELSE "")]

InitScenarioA ==
    /\ engine \in {"collection", "photo"}
    /\ \E at \in {a \in SUBSET (1..Len(ScenarioAProducts)) : Cardinality(a) = 3} :
       \E tiers \in IF engine = "collection" THEN {{}}
                    ELSE SUBSET (1..Len(ScenarioAProducts)) :
            hits = ScenarioAHits(engine, at, tiers)
    /\ maxPerLocation = 2
    /\ targetProducts = 4
    /\ pc = "collapse"
    /\ uniqueProducts = <<>>
    /\ productsByLocation = <<>>
    /\ locationKeys = <<>>
    /\ locationIndex = 0
    /\ locationCounts = <<>>
    /\ iterations = 0
    /\ result = <<>>
    /\ featuredQueue = <<>>
    /\ regularQueue = <<>>
    /\ withoutPhoto = <<>>
    /\ photoCounters = <<>>
    /\ placements = <<>>
    /\ ServerIdle

SpecScenarioA == InitScenarioA /\ [][Next]_vars

-----------------------------------------------------------------------------
(* Handle normalisation on its own: getProductKey (engine "collection") or
   getBaseHandle (engine "photo") applied to a product, then to a product
   whose handle is the key the first application returned; result holds
   the keys returned so far *)

MaxSegments == 3

\* segments of the handles of the shop: a name, the size, medium and
\* variant markers
HandleSegments ==
    {"art", "40x60", "print", "canvas", "paper", "original", "painting",
     "variant", "v"}

\* the handles of at most MaxSegments segments
Handles ==
    UNION {[1..n -> HandleSegments] : n \in 1..MaxSegments}

NoDetails == Details(0, 0, "", "", "")

\* the key of a product with this handle, by the function the engine uses
NormalizedHandle(handle) ==
    IF engine = "collection"
    THEN getProductKey(Hit(handle, Undefined, NoDetails, ""))
    ELSE getBaseHandle(Hit(handle, Undefined, NoDetails, ""))

InitNormalizer ==
    /\ engine \in {"collection", "photo"}
    /\ hits \in {<<Hit(h, Undefined, NoDetails, "")>> : h \in Handles}
    /\ maxPerLocation = 0
    /\ targetProducts = 0
    /\ pc = "normalize"
    /\ uniqueProducts = <<>>
    /\ productsByLocation = <<>>
    /\ locationKeys = <<>>
    /\ locationIndex = 0
    /\ locationCounts = <<>>
    /\ iterations = 0
    /\ result = <<>>
    /\ featuredQueue = <<>>
    /\ regularQueue = <<>>
    /\ withoutPhoto = <<>>
    /\ photoCounters = <<>>
    /\ placements = <<>>
    /\ ServerIdle

\* the first application, to the product
NormalizeHandle ==
    /\ pc = "normalize"
    /\ result' = <<NormalizedHandle(hits[1].handle)>>
    /\ pc' = "normalized"
    /\ UNCHANGED <<serverVars, engine, hits, maxPerLocation, targetProducts, uniqueProducts,
                   productsByLocation, locationKeys, locationIndex, locationCounts,
                   iterations, featuredQueue, regularQueue, withoutPhoto,
                   photoCounters, placements>>

\* the second application, to the key returned by the first
NormalizeAgain ==
    /\ pc = "normalized"
    /\ result' = Append(result, NormalizedHandle(result[1]))
    /\ pc' = "done"
    /\ UNCHANGED <<serverVars, engine, hits, maxPerLocation, targetProducts, uniqueProducts,
                   productsByLocation, locationKeys, locationIndex, locationCounts,
                   iterations, featuredQueue, regularQueue, withoutPhoto,
                   photoCounters, placements>>

NextNormalizer == NormalizeHandle \/ NormalizeAgain

SpecNormalizer == InitNormalizer /\ [][NextNormalizer]_vars

-----------------------------------------------------------------------------
(* Calls at the edge of the declared input: no hits argument, no hits, a
   target count of zero or below, hits without handle, title or location
   details, a handle or a location photo that names a property every
   object inherits *)

MaxEdgeHits == 2

EdgeHandles == {Undefined, <<"art", "a">>, <<"constructor">>}

EdgeTitles == {Undefined, <<>>, <<"Old", " ", "Mill">>}

EdgeHits(eng) ==
    IF eng = "collection"
    THEN {Hit(h, t, d, "") :
             h \in EdgeHandles, t \in EdgeTitles,
             d \in {NoDetails, Details(488566004, 0, "g1", "", "")}}
    ELSE {Hit(h, t, d, f) :
             h \in {Undefined, <<"art", "a">>}, t \in {Undefined, <<"Old", " ", "Mill">>},
             d \in {NoDetails, Details(0, 0, "", "", "p1"),
                    Details(0, 0, "", "", "constructor")},
             f \in FeaturedValues}

InitEdge ==
    /\ engine \in {"collection", "photo"}
    /\ hits \in {NoHits} \cup UNION {[1..n -> EdgeHits(engine)] : n \in 0..MaxEdgeHits}
    /\ maxPerLocation \in 0..MaxPer
    /\ targetProducts \in -1..MaxPer
    /\ pc = "collapse"
    /\ uniqueProducts = <<>>
    /\ productsByLocation = <<>>
    /\ locationKeys = <<>>
    /\ locationIndex = 0
    /\ locationCounts = <<>>
    /\ iterations = 0
    /\ result = <<>>
    /\ featuredQueue = <<>>
    /\ regularQueue = <<>>
    /\ withoutPhoto = <<>>
    /\ photoCounters = <<>>
    /\ placements = <<>>
    /\ ServerIdle

SpecEdge == InitEdge /\ [][Next]_vars

-----------------------------------------------------------------------------
(* Scenario B of the specification: variants of two products, art-x and
   art-y, in any order; the title of art-y is the title of art-x-40x60 in
   another spelling; maxPerGroup = 2, targetCount = 3 *)

MaxVariantHits == 3

ScenarioBProducts ==
    { [handle |-> <<"art", "x", "40x60">>, title |-> <<"Sunset", " ", "Over", " ", "Paris">>],
      [handle |-> <<"art", "x", "variant", "2">>, title |-> <<"Harbour", " ", "Lights">>],
      [handle |-> <<"art", "y">>, title |-> <<"sunset", " ", "over", " ", "paris", " ">>],
      [handle |-> <<"art", "y", "print">>, title |-> <<"Old", " ", "Mill">>] }

ScenarioBHits(eng) ==
    IF eng = "collection"
    THEN {Hit(c.handle, c.title, d, "") :
             c \in ScenarioBProducts,
             d \in {NoDetails, Details(488566004, 23522001, "", "", "")}}
    ELSE {Hit(c.handle, c.title, Details(0, 0, "", "", "p1"), f) :
             c \in ScenarioBProducts, f \in FeaturedValues}
         \cup {Hit(c.handle, c.title, NoDetails, "") : c \in ScenarioBProducts}

InitScenarioB ==
    /\ engine \in {"collection", "photo"}
    /\ hits \in UNION {[1..n -> ScenarioBHits(engine)] : n \in 1..MaxVariantHits}
    /\ maxPerLocation = 2
    /\ targetProducts = 3
    /\ pc = "collapse"
    /\ uniqueProducts = <<>>
    /\ productsByLocation = <<>>
    /\ locationKeys = <<>>
    /\ locationIndex = 0
    /\ locationCounts = <<>>
    /\ iterations = 0
    /\ result = <<>>
    /\ featuredQueue = <<>>
    /\ regularQueue = <<>>
    /\ withoutPhoto = <<>>
    /\ photoCounters = <<>>
    /\ placements = <<>>
    /\ ServerIdle

SpecScenarioB == InitScenarioB /\ [][Next]_vars

-----------------------------------------------------------------------------
(* Titles: areTitlesSimilar applied to the titles of two hits at some
   threshold (result then holds the judgement), and deduplicateForCollection
   with its default arguments called with hits that differ in handle and
   title *)

MaxTitleHits == 3

\* titles: none, empty, a title in two spellings, titles that share one
\* word of more than two characters, a title in which the only long word
\* is shared, a title that repeats a word
Titles ==
    { Undefined, <<>>,
      <<"Sunset", " ", "Over", " ", "Paris">>,
      <<"sunset", " ", "over", " ", "paris", " ">>,
      <<"Harbour", " ", "Lights">>,
      <<"At", " ", "Lights">>,
      <<" ", "at", " ", "lights">>,
      <<"Lights", " ", "Lights">> }

\* thresholds in tenths: none, the one the engine passes, 1.0, above 1.0
Thresholds == {0, 8, 10, 11}

\* the hits a response can list at position i: product i under any title
TitleHitsAt(i) == {Hit(Products[i].handle, t, NoDetails, "") : t \in Titles}

InitTitles ==
    /\ engine = "collection"
    /\ hits \in UNION { {hs \in [1..n -> UNION {TitleHitsAt(i) : i \in 1..n}] :
                           \A i \in 1..n : hs[i] \in TitleHitsAt(i)} :
                        n \in 1..MaxTitleHits }
    /\ pc \in IF Len(hits) = 2 THEN {"judge", "collapse"} ELSE {"collapse"}
    /\ maxPerLocation = 2
    /\ targetProducts = 24
    /\ uniqueProducts = <<>>
    /\ productsByLocation = <<>>
    /\ locationKeys = <<>>
    /\ locationIndex = 0
    /\ locationCounts = <<>>
    /\ iterations = 0
    /\ result = <<>>
    /\ featuredQueue = <<>>
    /\ regularQueue = <<>>
    /\ withoutPhoto = <<>>
    /\ photoCounters = <<>>
    /\ placements = <<>>
    /\ ServerIdle

\* areTitlesSimilar(hits[0].title, hits[1].title, threshold)
JudgeTitles ==
    /\ pc = "judge"
    /\ \E threshold \in Thresholds :
           result' = <<[threshold |-> threshold,
                        similar |-> areTitlesSimilar(hits[1].title, hits[2].title,
                                                     threshold)]>>
    /\ pc' = "judged"
    /\ UNCHANGED <<serverVars, engine, hits, maxPerLocation, targetProducts, uniqueProducts,
                   productsByLocation, locationKeys, locationIndex, locationCounts,
                   iterations, featuredQueue, regularQueue, withoutPhoto,
                   photoCounters, placements>>

NextTitles ==
    \/ JudgeTitles
    \/ CollectionCollapse
    \/ CollectionGroup
    \/ CollectionIterate
    \/ CollectionReturn

SpecTitles == InitTitles /\ [][NextTitles]_vars

-----------------------------------------------------------------------------
(* deduplicateByLocationPhotoServer called with hits of one location photo
   and hits without location photo, featured and regular *)

MaxPhotoHits == 4

\* the hits a response can list at position i: product i with or without
\* the location photo, featured or regular
TierHitsAt(i) ==
    {Hit(Products[i].handle, Products[i].title, Details(0, 0, "", "", photo), f) :
        photo \in {"p1", ""}, f \in FeaturedValues}

InitPhoto ==
    /\ engine = "photo"
    /\ hits \in UNION { {hs \in [1..n -> UNION {TierHitsAt(i) : i \in 1..n}] :
                           \A i \in 1..n : hs[i] \in TierHitsAt(i)} :
                        n \in 0..MaxPhotoHits }
    /\ maxPerLocation \in 0..MaxPer
    /\ targetProducts \in 0..MaxTarget
    /\ pc = "collapse"
    /\ uniqueProducts = <<>>
    /\ productsByLocation = <<>>
    /\ locationKeys = <<>>
    /\ locationIndex = 0
    /\ locationCounts = <<>>
    /\ iterations = 0
    /\ result = <<>>
    /\ featuredQueue = <<>>
    /\ regularQueue = <<>>
    /\ withoutPhoto = <<>>
    /\ photoCounters = <<>>
    /\ placements = <<>>
    /\ ServerIdle

NextPhoto ==
    \/ PhotoCollapse
    \/ PhotoQueues
    \/ FeaturedIterate
    \/ FeaturedExit
    \/ RegularIterate
    \/ RegularExit
    \/ PhotoWithout

SpecPhoto == InitPhoto /\ [][NextPhoto]_vars

-----------------------------------------------------------------------------
(* Location keys: deduplicateForCollection with its default arguments
   called with one or two hits with any combination of latitude, longitude,
   place id and formatted address, the coordinates numbers or strings *)

MaxKeyHits == 2

\* the location details of a hit
KeyDetails ==
    UNION { {Details(lat, lng, gid, addr, ""), TextDetails(lat, lng, gid, addr, "")} :
            lat \in {0, 488566004}, lng \in {0, 23522001},
            gid \in {"", "g1"}, addr \in {"", "a1"} }

\* the hits a response can list at position i
KeyHitsAt(i) ==
    {Hit(h, Products[i].title, d, "") :
        h \in {Undefined, Products[i].handle}, d \in KeyDetails}

InitLocationKey ==
    /\ engine = "collection"
    /\ hits \in UNION { {hs \in [1..n -> UNION {KeyHitsAt(i) : i \in 1..n}] :
                           \A i \in 1..n : hs[i] \in KeyHitsAt(i)} :
                        n \in 1..MaxKeyHits }
    /\ maxPerLocation = 2
    /\ targetProducts = 24
    /\ pc = "collapse"
    /\ uniqueProducts = <<>>
    /\ productsByLocation = <<>>
    /\ locationKeys = <<>>
    /\ locationIndex = 0
    /\ locationCounts = <<>>
    /\ iterations = 0
    /\ result = <<>>
    /\ featuredQueue = <<>>
    /\ regularQueue = <<>>
    /\ withoutPhoto = <<>>
    /\ photoCounters = <<>>
    /\ placements = <<>>
    /\ ServerIdle

NextCollection ==
    \/ CollectionCollapse
    \/ CollectionGroup
    \/ CollectionIterate
    \/ CollectionReturn

SpecLocationKey == InitLocationKey /\ [][NextCollection]_vars

-----------------------------------------------------------------------------
(* The distribution loop of deduplicateForCollection: hits of different
   products with pairwise dissimilar titles, so that none is collapsed,
   spread over three places in any way *)

MaxGroupHits == 5

\* products with pairwise dissimilar titles
DistributionProducts ==
    ScenarioAProducts
    \o << [handle |-> <<"art", "g">>, title |-> <<"Sunset", " ", "Mill">>] >>

\* three places: one known by coordinates, one by place id, one by address
DistributionPlaces ==
    { Details(488566004, 23522001, "", "", ""),
      Details(0, 0, "g1", "", ""),
      Details(0, 0, "", "a1", "") }

\* the hit a response lists at position i, at the place `details`
DistributionHit(i, details) ==
    Hit(DistributionProducts[i].handle, DistributionProducts[i].title, details, "")

InitDistribution ==
    /\ engine = "collection"
    /\ \E n \in 0..MaxGroupHits : \E at \in [1..n -> DistributionPlaces] :
           hits = [i \in 1..n |-> DistributionHit(i, at[i])]
    /\ maxPerLocation \in 0..MaxPer
    /\ targetProducts \in (0..MaxTarget) \cup {24}
    /\ pc = "collapse"
    /\ uniqueProducts = <<>>
    /\ productsByLocation = <<>>
    /\ locationKeys = <<>>
    /\ locationIndex = 0
    /\ locationCounts = <<>>
    /\ iterations = 0
    /\ result = <<>>
    /\ featuredQueue = <<>>
    /\ regularQueue = <<>>
    /\ withoutPhoto = <<>>
    /\ photoCounters = <<>>
    /\ placements = <<>>
    /\ ServerIdle

SpecDistribution == InitDistribution /\ [][NextCollection]_vars

-----------------------------------------------------------------------------
(* Many location groups: hits of different products with pairwise
   dissimilar titles, listed place by place, each hit at the place of the
   hit before it or at a place of its own *)

MaxRotationHits == 9

\* the words of the titles
RotationWords ==
    <<"Sunset", "Harbour", "Old", "Red", "Over", "Paris", "Lights", "Mill", "Roof", "At">>

\* product i: two titles share one word at most, which is below the
\* similarity threshold of 0.8
RotationProduct(i) ==
    [handle |-> <<"art", ToString(i)>>,
     title |-> <<RotationWords[((i - 1) % Len(RotationWords)) + 1], " ",
                 RotationWords[(i % Len(RotationWords)) + 1]>>]

\* place g, known by its coordinates
RotationPlace(g) == Details(488566004 + 10000 * g, 23522001, "", "", "")

\* the hit a response lists at position i when the hits at the positions
\* `same` are at the place of the hit before them
RotationHit(i, same) ==
    Hit(RotationProduct(i).handle, RotationProduct(i).title,
        RotationPlace(i - Cardinality({j \in same : j <= i})), "")

InitRotation ==
    /\ engine = "collection"
    /\ \E n \in 0..MaxRotationHits : \E same \in SUBSET (2..n) :
           hits = [i \in 1..n |-> RotationHit(i, same)]
    /\ maxPerLocation \in 1..MaxPer
    /\ targetProducts = 24
    /\ pc = "collapse"
    /\ uniqueProducts = <<>>
    /\ productsByLocation = <<>>
    /\ locationKeys = <<>>
    /\ locationIndex = 0
    /\ locationCounts = <<>>
    /\ iterations = 0
    /\ result = <<>>
    /\ featuredQueue = <<>>
    /\ regularQueue = <<>>
    /\ withoutPhoto = <<>>
    /\ photoCounters = <<>>
    /\ placements = <<>>
    /\ ServerIdle

SpecRotation == InitRotation /\ [][NextCollection]_vars

-----------------------------------------------------------------------------
(* Hits that carry a style name in their location details: the hits of
   SpecDistribution, each with one of two style names or with none *)

MaxStyleHits == 3

\* the location details with the attribute styleName ("" is none)
StyledDetails(details, style) ==
    [latitude |-> details.latitude, longitude |-> details.longitude,
     coordinateType |-> details.coordinateType,
     google_id |-> details.google_id,
     formatted_address |-> details.formatted_address,
     location_photo |-> details.location_photo,
     styleName |-> style]

StyleNames == {"", "s1", "s2"}

InitStyle ==
    /\ engine = "collection"
    /\ \E n \in 0..MaxStyleHits :
           \E at \in [1..n -> DistributionPlaces] : \E styles \in [1..n -> StyleNames] :
               hits = [i \in 1..n |->
                          DistributionHit(i, StyledDetails(at[i], styles[i]))]
    /\ maxPerLocation = 2
    /\ targetProducts = 24
    /\ pc = "collapse"
    /\ uniqueProducts = <<>>
    /\ productsByLocation = <<>>
    /\ locationKeys = <<>>
    /\ locationIndex = 0
    /\ locationCounts = <<>>
    /\ iterations = 0
    /\ result = <<>>
    /\ featuredQueue = <<>>
    /\ regularQueue = <<>>
    /\ withoutPhoto = <<>>
    /\ photoCounters = <<>>
    /\ placements = <<>>
    /\ ServerIdle

SpecStyle == InitStyle /\ [][NextCollection]_vars

-----------------------------------------------------------------------------
(* Hits of which some are collapsed and the others share places: at each
   position the product of the index or the size variant, at one of the
   three places of SpecDistribution *)

MaxOrderHits == 4

InitOrder ==
    /\ engine = "collection"
    /\ \E n \in 0..MaxOrderHits :
           \E at \in [1..n -> DistributionPlaces] : \E sized \in SUBSET (1..n) :
               hits = [i \in 1..n |->
                          LET product == IF i \in sized THEN SizeVariant ELSE Products[i]
                          IN  Hit(product.handle, product.title, at[i], "")]
    /\ maxPerLocation \in 1..MaxPer
    /\ targetProducts = 24
    /\ pc = "collapse"
    /\ uniqueProducts = <<>>
    /\ productsByLocation = <<>>
    /\ locationKeys = <<>>
    /\ locationIndex = 0
    /\ locationCounts = <<>>
    /\ iterations = 0
    /\ result = <<>>
    /\ featuredQueue = <<>>
    /\ regularQueue = <<>>
    /\ withoutPhoto = <<>>
    /\ photoCounters = <<>>
    /\ placements = <<>>
    /\ ServerIdle

SpecOrder == InitOrder /\ [][NextCollection]_vars

-----------------------------------------------------------------------------
(* The endpoints POST /api/nearby-search and POST /api/pre-generate-collection,
   their cache and the search index they query. A handler runs without
   interruption up to its await of index.search and, when the search has
   settled, from there to its end; requests interleave at the await only.
   A cache entry carries, as history, the body of the request that wrote
   it (writer). *)

MaxRequests == 3

\* CACHE_DURATION = 24 * 60 * 60 * 1000
CACHE_DURATION == 24 * 60 * 60 * 1000

\* the size above which nearby-search deletes the oldest cache entry
CacheSizeLimit == 1000

\* the place the requests ask for, in units of 1e-7 degree
Paris == [lat |-> 488566004, lng |-> 23522001]

\* the records of the search index in ranking order, and whether each lies
\* within the radius of the place the requests ask for
IndexRecords ==
    << [hit |-> Hit(<<"art", "a">>, <<"Sunset", " ", "Over", " ", "Paris">>,
                    Details(Paris.lat, Paris.lng, "", "", "p1"), "yes"),
        near |-> TRUE],
       [hit |-> Hit(<<"art", "b">>, <<"Harbour", " ", "Lights">>,
                    Details(Paris.lat, 0, "g1", "", "p1"), ""),
        near |-> TRUE],
       [hit |-> Hit(<<"art", "d">>, <<"Old", " ", "Mill">>, NoDetails, ""),
        near |-> FALSE] >>

\* index.search('', searchParams) when it succeeds: the records that pass
\* the filter NOT handle:<filters> and, when aroundLatLng is set, lie within
\* aroundRadius, cut to hitsPerPage; a hit carries meta.featured only if
\* attributesToRetrieve names it
Search(searchParams) ==
    LET matching ==
            SelectSeq(IndexRecords, LAMBDA r :
                /\ (searchParams.filters = Undefined \/ r.hit.handle # searchParams.filters)
                /\ (searchParams.aroundLatLng => r.near))
    IN  [hits |-> [i \in 1..Min(Len(matching), searchParams.hitsPerPage) |->
                      IF searchParams.retrieveFeatured
                      THEN matching[i].hit
                      ELSE [matching[i].hit EXCEPT !.featured = ""]],
         nbHits |-> Len(matching)]

\* the instants at which something happens: the start, one millisecond
\* before an entry written at the start turns 24 hours old, and the instant
\* at which it does
Instants == {0, CACHE_DURATION - 1, CACHE_DURATION}

\* Math.round(a / b) for a >= 0, b > 0
RoundDiv(a, b) == (2 * a + b) \div (2 * b)

\* faulty variant of CacheFresh: an entry of exactly CACHE_DURATION is served
CacheFreshInclusive(cached, t) == (t - cached.timestamp) <= CACHE_DURATION

\* (Date.now() - cached.timestamp) < CACHE_DURATION
CacheFresh(cached, t) == (t - cached.timestamp) < CACHE_DURATION

\* cached && (Date.now() - cached.timestamp) < CACHE_DURATION
CacheHit(c, cacheKey, t) == MapHas(c, cacheKey) /\ CacheFresh(MapGet(c, cacheKey), t)

\* a response: res.status(status).json(...), with the request it answers
Response(id, endpoint, body, cacheKey, status, cached, cacheAge, data, writer) ==
    [id |-> id, endpoint |-> endpoint, body |-> body, cacheKey |-> cacheKey,
     status |-> status, cached |-> cached, cacheAge |-> cacheAge, data |-> data,
     writer |-> writer]

NoBody == [none |-> TRUE]

NoData == [none |-> TRUE]

(* POST /api/nearby-search *)

NearbyBody(lat, lng, currentHandle, fallback) ==
    [lat |-> lat, lng |-> lng, radiusKm |-> 30, hitsPerPage |-> 24,
     currentHandle |-> currentHandle, maxPerLocation |-> 2, fallback |-> fallback]

\* the request bodies: with and without the place, with and without
\* currentHandle and fallback
NearbyBodies ==
    { NearbyBody(Paris.lat, Paris.lng, Undefined, FALSE),
      NearbyBody(Paris.lat, Paris.lng, <<"art", "a">>, FALSE),
      NearbyBody(Paris.lat, Paris.lng, Undefined, TRUE),
      NearbyBody(0, 0, Undefined, TRUE),
      NearbyBody(0, 0, Undefined, FALSE) }

\* faulty variant of NearbyMissingParameters: the parameters are not
\* checked
NearbyMissingParametersUnchecked(body) == FALSE

\* !fallback && (!lat || !lng)
NearbyMissingParameters(body) ==
    ~body.fallback /\ (body.lat = 0 \/ body.lng = 0)

\* `nearby:${lat || 'fallback'}:${lng || 'fallback'}:${radiusKm}:${hitsPerPage}:${maxPerLocation}`
NearbyCacheKey(body) ==
    << "nearby",
       IF body.lat # 0 THEN ToString(body.lat) ELSE "fallback",
       IF body.lng # 0 THEN ToString(body.lng) ELSE "fallback",
       ToString(body.radiusKm), ToString(body.hitsPerPage),
       ToString(body.maxPerLocation) >>

\* searchParams of nearby-search
NearbySearchParams(body) ==
    [hitsPerPage |-> body.hitsPerPage * 3,
     filters |-> IF body.currentHandle = Undefined \/ body.currentHandle = <<"">>
                 THEN Undefined ELSE body.currentHandle,
     aroundLatLng |-> (~body.fallback /\ body.lat # 0 /\ body.lng # 0),
     retrieveFeatured |-> FALSE]

\* what the handler computes from the response of the search: uniqueHits
\* = deduplicateForCollection(searchResponse.hits, maxPerLocation,
\* hitsPerPage) and the responseData { hits, totalHits }
NearbyData(body) ==
    LET searchResponse == Search(NearbySearchParams(body))
        kept == deduplicateForCollection(searchResponse.hits, body.maxPerLocation,
                                         body.hitsPerPage)
        uniqueHits == [i \in 1..Len(kept) |-> searchResponse.hits[kept[i]]]
    IN  [hits |-> uniqueHits, totalHits |-> searchResponse.nbHits]

\* NearbyData of each request body, computed once
NearbyResponseData ==
    {[body |-> body, data |-> NearbyData(body)] : body \in NearbyBodies}

\* the handler up to `await index.search`
NearbyReceive(body) ==
    /\ received < MaxRequests
    /\ received' = received + 1
    /\ LET cacheKey == NearbyCacheKey(body)
       IN  IF NearbyMissingParameters(body)
           THEN /\ response' = Response(received + 1, "nearby", body, cacheKey, 400,
                                        FALSE, 0, NoData, NoBody)
                /\ UNCHANGED <<cache, pending>>
           ELSE IF CacheHit(cache, cacheKey, now)
           THEN LET cached == MapGet(cache, cacheKey)
                    cacheAge == RoundDiv(now - cached.timestamp, 1000 * 60)
                IN  /\ response' = Response(received + 1, "nearby", body, cacheKey, 200,
                                            TRUE, cacheAge, cached.data, cached.writer)
                    /\ UNCHANGED <<cache, pending>>
           ELSE /\ pending' = pending \cup
                       {[id |-> received + 1, endpoint |-> "nearby", body |-> body,
                         cacheKey |-> cacheKey,
                         searchParams |-> NearbySearchParams(body)]}
                /\ UNCHANGED <<cache, response>>
    /\ UNCHANGED <<now, engineVars>>

\* the handler after the search returned: deduplicate, cache, clean up,
\* respond
NearbyResolve(p) ==
    /\ p \in pending /\ p.endpoint = "nearby"
    /\ \E r \in NearbyResponseData :
           /\ r.body = p.body
           /\ \E stored \in {MapPut(cache, p.cacheKey,
                                     [data |-> r.data, timestamp |-> now,
                                      writer |-> p.body])} :
                  cache' = IF Len(stored) > CacheSizeLimit THEN Tail(stored)
                           ELSE stored
           /\ response' = Response(p.id, "nearby", p.body, p.cacheKey, 200,
                                   FALSE, 0, r.data, p.body)
    /\ pending' = pending \ {p}
    /\ UNCHANGED <<now, received, engineVars>>

\* the handler after the search threw: the catch block
NearbyReject(p) ==
    /\ p \in pending /\ p.endpoint = "nearby"
    /\ response' = Response(p.id, "nearby", p.body, p.cacheKey, 500,
                            FALSE, 0, [error |-> "Search failed"], NoBody)
    /\ pending' = pending \ {p}
    /\ UNCHANGED <<cache, now, received, engineVars>>

(* POST /api/pre-generate-collection *)

PreGenerateBody(lat, lng, cityName, forceRegenerate) ==
    [lat |-> lat, lng |-> lng, radiusKm |-> 30, cityName |-> cityName,
     collectionHandle |-> "paris", hitsPerPage |-> 6,
     forceRegenerate |-> forceRegenerate]

PreGenerateBodies ==
    { PreGenerateBody(Paris.lat, Paris.lng, "Paris", FALSE),
      PreGenerateBody(Paris.lat, Paris.lng, "Paris", TRUE),
      PreGenerateBody(Paris.lat, Paris.lng, "", FALSE) }

\* !lat || !lng || !cityName
PreGenerateMissingParameters(body) ==
    body.lat = 0 \/ body.lng = 0 \/ body.cityName = ""

\* `ssr-collection:${cityName}:${lat}:${lng}:${radiusKm}:${hitsPerPage}`
PreGenerateCacheKey(body) ==
    << "ssr-collection", body.cityName, ToString(body.lat), ToString(body.lng),
       ToString(body.radiusKm), ToString(body.hitsPerPage) >>

\* searchParams of pre-generate-collection
PreGenerateSearchParams(body) ==
    [hitsPerPage |-> 100, filters |-> Undefined, aroundLatLng |-> TRUE,
     retrieveFeatured |-> TRUE]

\* escapeHtml(product.title) throws a TypeError for a product without title
generateSSRCollectionHTMLThrows(products) ==
    \E i \in 1..Len(products) : products[i].title = Undefined

\* generateSSRCollectionHTML: the cards of the products, in order
generateSSRCollectionHTML(products, cityName) ==
    [city |-> cityName,
     cards |-> [i \in 1..Len(products) |->
                   [photo |-> IF products[i].details.location_photo = ""
                              THEN "no-photo"
                              ELSE products[i].details.location_photo,
                    handle |-> products[i].handle,
                    title |-> products[i].title]]]

\* what the handler computes from the response of the search:
\* deduplicatedHits = deduplicateByLocationPhotoServer(searchResponse.hits,
\* hitsPerPage, 2) and staticHTML, or an exception of either
PreGenerate(body) ==
    LET searchResponse == Search(PreGenerateSearchParams(body))
        kept == deduplicateByLocationPhotoServer(searchResponse.hits,
                                                 body.hitsPerPage, 2)
        deduplicatedHits ==
            [i \in 1..Len(kept.result) |-> searchResponse.hits[kept.result[i]]]
    IN  [threw |-> kept.threw \/ generateSSRCollectionHTMLThrows(deduplicatedHits),
         html |-> generateSSRCollectionHTML(deduplicatedHits, body.cityName)]

\* PreGenerate of each request body, computed once
PreGenerateResponseData ==
    {[body |-> body, generated |-> PreGenerate(body)] : body \in PreGenerateBodies}

\* the handler up to `await index.search`
PreGenerateReceive(body) ==
    /\ received < MaxRequests
    /\ received' = received + 1
    /\ LET cacheKey == PreGenerateCacheKey(body)
       IN  IF PreGenerateMissingParameters(body)
           THEN /\ response' = Response(received + 1, "pre-generate", body, cacheKey,
                                        400, FALSE, 0, NoData, NoBody)
                /\ UNCHANGED <<cache, pending>>
           ELSE IF ~body.forceRegenerate /\ CacheHit(cache, cacheKey, now)
           THEN LET cached == MapGet(cache, cacheKey)
                    cacheAge == RoundDiv(now - cached.timestamp, 1000 * 60 * 60)
                IN  /\ response' = Response(received + 1, "pre-generate", body,
                                            cacheKey, 200, TRUE, cacheAge,
                                            cached.data, cached.writer)
                    /\ UNCHANGED <<cache, pending>>
           ELSE /\ pending' = pending \cup
                       {[id |-> received + 1, endpoint |-> "pre-generate",
                         body |-> body, cacheKey |-> cacheKey,
                         searchParams |-> PreGenerateSearchParams(body)]}
                /\ UNCHANGED <<cache, response>>
    /\ UNCHANGED <<now, engineVars>>

\* the handler after the search returned: deduplicate, render, cache,
\* respond; an exception of the engine or the renderer ends in the catch
\* block
PreGenerateResolve(p) ==
    /\ p \in pending /\ p.endpoint = "pre-generate"
    /\ \E r \in PreGenerateResponseData :
           /\ r.body = p.body
           /\ IF r.generated.threw
              THEN /\ response' = Response(p.id, "pre-generate", p.body, p.cacheKey,
                                           500, FALSE, 0,
                                           [error |-> "Pre-generation failed"], NoBody)
                   /\ UNCHANGED cache
              ELSE /\ cache' = MapPut(cache, p.cacheKey,
                                      [data |-> r.generated.html, timestamp |-> now,
                                       writer |-> p.body])
                   /\ response' = Response(p.id, "pre-generate", p.body, p.cacheKey,
                                           200, FALSE, 0, r.generated.html, p.body)
    /\ pending' = pending \ {p}
    /\ UNCHANGED <<now, received, engineVars>>

\* the handler after the search threw: the catch block
PreGenerateReject(p) ==
    /\ p \in pending /\ p.endpoint = "pre-generate"
    /\ response' = Response(p.id, "pre-generate", p.body, p.cacheKey, 500,
                            FALSE, 0, [error |-> "Pre-generation failed"], NoBody)
    /\ pending' = pending \ {p}
    /\ UNCHANGED <<cache, now, received, engineVars>>

\* time passes
Tick ==
    /\ \E t \in Instants : t > now /\ now' = t
    /\ UNCHANGED <<cache, pending, received, response, engineVars>>

\* no call of the engine is in progress between two steps of the server
EngineIdle ==
    /\ engine = "none"
    /\ pc = "idle"
    /\ hits = <<>>
    /\ maxPerLocation = 0
    /\ targetProducts = 0
    /\ uniqueProducts = <<>>
    /\ productsByLocation = <<>>
    /\ locationKeys = <<>>
    /\ locationIndex = 0
    /\ locationCounts = <<>>
    /\ iterations = 0
    /\ result = <<>>
    /\ featuredQueue = <<>>
    /\ regularQueue = <<>>
    /\ withoutPhoto = <<>>
    /\ photoCounters = <<>>
    /\ placements = <<>>

InitServer == EngineIdle /\ ServerIdle

NextServer ==
    \/ \E body \in NearbyBodies : NearbyReceive(body)
    \/ \E p \in pending : NearbyResolve(p)
    \/ \E p \in pending : NearbyReject(p)
    \/ \E body \in PreGenerateBodies : PreGenerateReceive(body)
    \/ \E p \in pending : PreGenerateResolve(p)
    \/ \E p \in pending : PreGenerateReject(p)
    \/ Tick

SpecServer == InitServer /\ [][NextServer]_vars

-----------------------------------------------------------------------------
(* The server with a cache that earlier requests for other places have
   filled up to the size at which nearby-search starts to delete *)

MaxFullRequests == 2

\* the entry that a nearby-search for place i wrote at instant 0: no record
\* of the index lies within its radius
OtherPlaceEntry(i) ==
    LET body == NearbyBody(i, i, Undefined, FALSE)
    IN  [key |-> NearbyCacheKey(body),
         val |-> [data |-> [hits |-> <<>>, totalHits |-> 0], timestamp |-> 0,
                  writer |-> body]]

\* the cache after the searches for the places 1 to n
FilledCache(n) == [i \in 1..n |-> OtherPlaceEntry(i)]

InitCacheFull ==
    /\ EngineIdle
    /\ cache \in {FilledCache(CacheSizeLimit - 1), FilledCache(CacheSizeLimit)}
    /\ now = 0
    /\ pending = {}
    /\ received = 0
    /\ response = NoResponse

FullNearbyReceive ==
    /\ received < MaxFullRequests
    /\ \E body \in NearbyBodies : NearbyReceive(body)

FullNearbyResolve == \E p \in pending : NearbyResolve(p)

FullPreGenerateReceive ==
    /\ received < MaxFullRequests
    /\ \E body \in PreGenerateBodies : PreGenerateReceive(body)

FullPreGenerateResolve == \E p \in pending : PreGenerateResolve(p)

NextCacheFull ==
    \/ FullNearbyReceive
    \/ FullNearbyResolve
    \/ FullPreGenerateReceive
    \/ FullPreGenerateResolve

SpecCacheFull == InitCacheFull /\ [][NextCacheFull]_vars

-----------------------------------------------------------------------------
(* The server with an index per locale (src/unnamed/part_001): POST
   /api/nearby-search and POST /api/pre-generate-collection with
   searchWithFallback.  A pending request says
   which search it awaits and lists the searches that have failed for it;
   a response and a cache entry list the searches made for them, each with
   its index and whether it succeeded *)

MaxLocaleRequests == 2

\* ALGOLIA_INDEXES
ALGOLIA_INDEXES ==
    [en |-> "shopify_products", de |-> "shopify_produkte",
     default |-> "shopify_products"]

\* a character of a locale: the character itself and its lower-case form
\* ('D' is [character |-> "D", lower |-> "d"]; 'e' and '-' are their own
\* lower-case form).  Two characters with one lower-case form stay two
\* characters.  Characters whose lower case is not one character whatever
\* stands around them (U+0130, a final U+03A3) are not used
Character(character, lower) == [character |-> character, lower |-> lower]

\* a text written in lower case, from its characters
LowerText(characters) ==
    [i \in 1..Len(characters) |-> Character(characters[i], characters[i])]

\* a request body without the field locale
NoLocale == <<Character("\\undefined", "\\undefined")>>

\* the locale of a request body, a string as the sequence of its
\* characters: none, a known one, the same with a capital, an unknown one,
\* and the name of a property every object inherits
Locales ==
    { NoLocale, LowerText(<<"d", "e">>),
      <<Character("D", "d"), Character("e", "e")>>, LowerText(<<"f", "r">>),
      LowerText(<<"c", "o", "n", "s", "t", "r", "u", "c", "t", "o", "r">>) }

\* const { ..., locale = 'en' } = req.body
LocaleOrDefault(body) ==
    IF body.locale = NoLocale THEN LowerText(<<"e", "n">>) ELSE body.locale

\* one character of text.toLowerCase(): the lower-case form of the
\* character, which is its own lower-case form
LowerLetter(c) == Character(c.lower, c.lower)

\* text.toLowerCase()
ToLowerCase(text) == [i \in 1..Len(text) |-> LowerLetter(text[i])]

\* what a property lookup finds on Object.prototype: the function Object
\* for 'constructor', the prototype itself for '__proto__'
ObjectConstructor == "\\function Object"

ObjectPrototype == "\\Object.prototype"

\* a property lookup that finds nothing, and a property JSON leaves out
NoIndex == "\\undefined"

\* ALGOLIA_INDEXES[name] for a name in lower case: an own property, or one
\* inherited from Object.prototype (of those only 'constructor' and
\* '__proto__' are written in lower case), or undefined
IndexOfLocale(name) ==
    CASE name = LowerText(<<"e", "n">>) -> ALGOLIA_INDEXES.en
      [] name = LowerText(<<"d", "e">>) -> ALGOLIA_INDEXES.de
      [] name = LowerText(<<"d", "e", "f", "a", "u", "l", "t">>) ->
             ALGOLIA_INDEXES.default
      [] name = LowerText(<<"c", "o", "n", "s", "t", "r", "u", "c", "t", "o", "r">>) ->
             ObjectConstructor
      [] name = LowerText(<<"_", "_", "p", "r", "o", "t", "o", "_", "_">>) ->
             ObjectPrototype
      [] OTHER -> NoIndex

\* getIndexName(locale), locale a string or undefined
getIndexName(locale) ==
    LET normalizedLocale ==
            ToLowerCase(IF locale = NoLocale \/ locale = <<>>
                        THEN LowerText(<<"e", "n">>) ELSE locale)
        found == IndexOfLocale(normalizedLocale)
    IN  IF found = NoIndex THEN ALGOLIA_INDEXES.default ELSE found

\* what res.json sends for the value of getIndexName: JSON leaves a
\* property out whose value is a function, and writes Object.prototype as
\* the empty object
IndexNameToJSON(indexName) ==
    IF indexName = ObjectConstructor THEN NoIndex ELSE indexName

\* faulty variant of HasOtherFallback: the fallback index is always tried
HasOtherFallbackAlways(primaryIndexName, fallbackIndexName) == TRUE

\* primaryIndexName !== fallbackIndexName
HasOtherFallback(primaryIndexName, fallbackIndexName) ==
    primaryIndexName # fallbackIndexName

\* a request body of nearby-search.  notANumber names the coordinates that
\* hold a text which is no number (isNaN is true of them); such a
\* coordinate is truthy
LocaleBody(lat, lng, notANumber, fallback, locale) ==
    [lat |-> lat, lng |-> lng, notANumber |-> notANumber, radiusKm |-> 30,
     hitsPerPage |-> 24, currentHandle |-> Undefined, maxPerLocation |-> 2,
     fallback |-> fallback, locale |-> locale]

\* the request bodies: the place with each locale, coordinates that are no
\* numbers with and without fallback, and no coordinates
LocaleBodies ==
    {LocaleBody(Paris.lat, Paris.lng, {}, FALSE, l) : l \in Locales}
        \cup { LocaleBody(1, 1, {"lat", "lng"}, FALSE, LowerText(<<"d", "e">>)),
               LocaleBody(Paris.lat, 1, {"lng"}, FALSE, NoLocale),
               LocaleBody(1, 1, {"lat", "lng"}, TRUE, NoLocale),
               LocaleBody(0, 0, {}, FALSE, NoLocale) }

\* !fallback && (isNaN(lat) || isNaN(lng)), for coordinates that are not
\* missing
InvalidCoordinates(body) == ~body.fallback /\ body.notANumber # {}

\* `${lat}` of a coordinate: the text that is no number is 'abc'
CoordinateText(body, name) ==
    IF name \in body.notANumber THEN "abc" ELSE ToString(body[name])

\* `nearby:${lat || 'fallback'}:${lng || 'fallback'}:${radiusKm}:${hitsPerPage}:${maxPerLocation}:${locale}`
LocaleCacheKey(body) ==
    << "nearby",
       IF body.lat # 0 THEN CoordinateText(body, "lat") ELSE "fallback",
       IF body.lng # 0 THEN CoordinateText(body, "lng") ELSE "fallback",
       ToString(body.radiusKm), ToString(body.hitsPerPage),
       ToString(body.maxPerLocation) >> \o LocaleOrDefault(body)

\* client.initIndex(indexName).search('', searchParams) when it succeeds:
\* an index other than the default one holds the records of the default
\* index but the first
SearchIndex(indexName, searchParams) ==
    LET found == Search(searchParams)
    IN  IF indexName = ALGOLIA_INDEXES.default THEN found
        ELSE [hits |-> Tail(found.hits), nbHits |-> found.nbHits - 1]

\* the response object the handler builds from the response of the index
\* that answered
LocaleData(body, indexName) ==
    LET searchResponse == SearchIndex(indexName, NearbySearchParams(body))
        kept == deduplicateForCollection(searchResponse.hits, body.maxPerLocation,
                                         body.hitsPerPage)
    IN  [hits |-> [i \in 1..Len(kept) |-> searchResponse.hits[kept[i]]],
         totalHits |-> searchResponse.nbHits,
         indexUsed |-> getIndexName(LocaleOrDefault(body))]

\* a response of a handler, res.status(status).json(data), with the
\* request it answers and the searches made for it
LocaleResponse(id, endpoint, body, cacheKey, status, cached, cacheAge, data, searches) ==
    [id |-> id, endpoint |-> endpoint, body |-> body, cacheKey |-> cacheKey,
     status |-> status, cached |-> cached, cacheAge |-> cacheAge, data |-> data,
     searches |-> searches]

\* the requests whose call of searchWithFallback has returned or thrown
\* and whose handler has not gone on yet: the promise the handler awaits
\* is settled, and the rest of the handler is a job in the queue of the
\* event loop, at position `job`
QueuedHandlers == {q \in pending : q.awaiting \in {"returned", "thrown"}}

\* the pending requests after the handler of p went on and ended: the
\* queued handlers behind it move up
Dequeue(p) ==
    {[q EXCEPT !.job = IF @ > 0 THEN @ - 1 ELSE 0] : q \in pending \ {p}}

\* the nearby-search handler up to the first await of searchWithFallback.
\* A request is taken up in a new turn of the event loop, when no job is
\* queued
LocaleReceive(body) ==
    /\ QueuedHandlers = {}
    /\ received < MaxLocaleRequests
    /\ received' = received + 1
    /\ LET cacheKey == LocaleCacheKey(body)
       IN  IF NearbyMissingParameters(body)
           THEN /\ response' = LocaleResponse(received + 1, "nearby", body, cacheKey,
                                   400, FALSE, 0,
                                   [error |-> "Missing required parameters"], <<>>)
                /\ UNCHANGED <<cache, pending>>
           ELSE IF InvalidCoordinates(body)
           THEN /\ response' = LocaleResponse(received + 1, "nearby", body, cacheKey,
                                   400, FALSE, 0,
                                   [error |-> "Invalid coordinates"], <<>>)
                /\ UNCHANGED <<cache, pending>>
           ELSE IF CacheHit(cache, cacheKey, now)
           THEN LET cached == MapGet(cache, cacheKey)
                    cacheAge == RoundDiv(now - cached.timestamp, 1000 * 60)
                IN  /\ response' = LocaleResponse(received + 1, "nearby", body,
                                       cacheKey, 200, TRUE, cacheAge,
                                       [cached.data EXCEPT
                                            !.indexUsed = IndexNameToJSON(@)],
                                       cached.searches)
                    /\ UNCHANGED <<cache, pending>>
           ELSE /\ pending' = pending \cup
                       {[id |-> received + 1, endpoint |-> "nearby", body |-> body,
                         cacheKey |-> cacheKey, awaiting |-> "primary",
                         searches |-> <<>>, job |-> 0]}
                /\ UNCHANGED <<cache, response>>
    /\ UNCHANGED <<now, engineVars>>

\* the index of the last search made for the request p
LastIndex(p) == p.searches[Len(p.searches)].index

\* nearby-search after its await of searchWithFallback, which returned
\* the response of the index searched last: the handler deduplicates,
\* caches, cleans up and responds
LocaleRespond(p) ==
    /\ p \in pending /\ p.endpoint = "nearby"
    /\ p.awaiting = "returned" /\ p.job = 1
    /\ LET data == LocaleData(p.body, LastIndex(p))
           stored == MapPut(cache, p.cacheKey,
                            [data |-> data, timestamp |-> now,
                             searches |-> p.searches])
       IN  /\ cache' = IF Len(stored) > CacheSizeLimit THEN Tail(stored) ELSE stored
           /\ response' = LocaleResponse(p.id, "nearby", p.body, p.cacheKey, 200,
                              FALSE, 0, [data EXCEPT !.indexUsed = IndexNameToJSON(@)],
                              p.searches)
    /\ pending' = Dequeue(p)
    /\ UNCHANGED <<now, received, engineVars>>

\* nearby-search after its await of searchWithFallback, which threw the
\* error of the search made last: the catch block of the handler
LocaleFail(p) ==
    /\ p \in pending /\ p.endpoint = "nearby"
    /\ p.awaiting = "thrown" /\ p.job = 1
    /\ response' = LocaleResponse(p.id, "nearby", p.body, p.cacheKey, 500, FALSE, 0,
                       [error |-> "Search failed", message |-> LastIndex(p),
                        indexAttempted |->
                            IndexNameToJSON(getIndexName(LocaleOrDefault(p.body)))],
                       p.searches)
    /\ pending' = Dequeue(p)
    /\ UNCHANGED <<cache, now, received, engineVars>>

(* POST /api/pre-generate-collection of part_001 *)

LocalePreGenerateBody(cityName, forceRegenerate, locale) ==
    [lat |-> Paris.lat, lng |-> Paris.lng, radiusKm |-> 30, cityName |-> cityName,
     collectionHandle |-> "paris", hitsPerPage |-> 24,
     forceRegenerate |-> forceRegenerate, locale |-> locale]

\* the request bodies: with and without forceRegenerate, with and without
\* locale, and one without cityName
LocalePreGenerateBodies ==
    { LocalePreGenerateBody("Paris", FALSE, LowerText(<<"d", "e">>)),
      LocalePreGenerateBody("Paris", TRUE, LowerText(<<"d", "e">>)),
      LocalePreGenerateBody("Paris", FALSE, NoLocale),
      LocalePreGenerateBody("", FALSE, NoLocale) }

\* `static-collection:${cityName}:${lat}:${lng}:${radiusKm}:${hitsPerPage}:${locale}`
LocalePreGenerateCacheKey(body) ==
    << "static-collection", body.cityName, ToString(body.lat), ToString(body.lng),
       ToString(body.radiusKm), ToString(body.hitsPerPage) >>
        \o LocaleOrDefault(body)

\* searchParams of pre-generate-collection: attributesToRetrieve does not
\* name meta.featured
LocalePreGenerateSearchParams(body) ==
    [hitsPerPage |-> 100, filters |-> Undefined, aroundLatLng |-> TRUE,
     retrieveFeatured |-> FALSE]

\* escapeHtml(product.title) throws a TypeError for a product without title
generateCollectionHTMLThrows(products) ==
    \E i \in 1..Len(products) : products[i].title = Undefined

\* generateCollectionHTML: the cards of the products, in order
generateCollectionHTML(products, cityName) ==
    [city |-> cityName,
     cards |-> [i \in 1..Len(products) |->
                   [handle |-> products[i].handle, title |-> products[i].title]]]

\* what the handler computes from the response of the index that answered:
\* deduplicatedHits = deduplicateForCollection(searchResponse.hits, 2,
\* hitsPerPage) and staticHTML, or an exception of the renderer
LocalePreGenerate(body, indexName) ==
    LET searchResponse == SearchIndex(indexName, LocalePreGenerateSearchParams(body))
        kept == deduplicateForCollection(searchResponse.hits, 2, body.hitsPerPage)
        deduplicatedHits == [i \in 1..Len(kept) |-> searchResponse.hits[kept[i]]]
    IN  [threw |-> generateCollectionHTMLThrows(deduplicatedHits),
         html |-> generateCollectionHTML(deduplicatedHits, body.cityName),
         products |-> Len(deduplicatedHits),
         totalHits |-> searchResponse.nbHits]

\* LocalePreGenerate of each request body and each index that can answer
\* it, computed once
LocalePreGenerateResponseData ==
    {[body |-> body, indexName |-> indexName,
      made |-> LocalePreGenerate(body, indexName)] :
         body \in LocalePreGenerateBodies,
         indexName \in {ALGOLIA_INDEXES.de, ALGOLIA_INDEXES.default}}

\* the pre-generate handler up to the first await of searchWithFallback
LocalePreGenerateReceive(body) ==
    /\ QueuedHandlers = {}
    /\ received < MaxLocaleRequests
    /\ received' = received + 1
    /\ LET cacheKey == LocalePreGenerateCacheKey(body)
       IN  IF PreGenerateMissingParameters(body)
           THEN /\ response' = LocaleResponse(received + 1, "pre-generate", body,
                                   cacheKey, 400, FALSE, 0,
                                   [error |-> "Missing required parameters"], <<>>)
                /\ UNCHANGED <<cache, pending>>
           ELSE IF ~body.forceRegenerate /\ CacheHit(cache, cacheKey, now)
           THEN LET cached == MapGet(cache, cacheKey)
                    cacheAge == RoundDiv(now - cached.timestamp, 1000 * 60 * 60)
                IN  /\ response' = LocaleResponse(received + 1, "pre-generate", body,
                                       cacheKey, 200, TRUE, cacheAge,
                                       [html |-> cached.data,
                                        generated |-> cached.generated],
                                       cached.searches)
                    /\ UNCHANGED <<cache, pending>>
           ELSE /\ pending' = pending \cup
                       {[id |-> received + 1, endpoint |-> "pre-generate",
                         body |-> body, cacheKey |-> cacheKey,
                         awaiting |-> "primary", searches |-> <<>>, job |-> 0]}
                /\ UNCHANGED <<cache, response>>
    /\ UNCHANGED <<now, engineVars>>

\* pre-generate after its await of searchWithFallback, which returned the
\* response of the index searched last: the handler deduplicates, renders,
\* caches without cleaning up, and responds; an exception of the renderer
\* ends in the catch block
LocalePreGenerateRespond(p) ==
    /\ p \in pending /\ p.endpoint = "pre-generate"
    /\ p.awaiting = "returned" /\ p.job = 1
    /\ \E r \in LocalePreGenerateResponseData :
        /\ r.body = p.body /\ r.indexName = LastIndex(p)
        /\ \E indexUsed \in {IndexNameToJSON(getIndexName(LocaleOrDefault(p.body)))} :
               IF r.made.threw
               THEN /\ response' = LocaleResponse(p.id, "pre-generate", p.body,
                                       p.cacheKey, 500, FALSE, 0,
                                       [error |-> "Pre-generation failed",
                                        message |-> "TypeError",
                                        indexAttempted |-> indexUsed],
                                       p.searches)
                    /\ UNCHANGED cache
               ELSE /\ cache' = MapPut(cache, p.cacheKey,
                                       [data |-> r.made.html, timestamp |-> now,
                                        generated |-> now,
                                        products |-> r.made.products,
                                        totalHits |-> r.made.totalHits,
                                        searches |-> p.searches])
                    /\ response' = LocaleResponse(p.id, "pre-generate", p.body,
                                       p.cacheKey, 200, FALSE, 0,
                                       [html |-> r.made.html, generated |-> now,
                                        stats |-> [products |-> r.made.products,
                                                   totalHits |-> r.made.totalHits,
                                                   city |-> p.body.cityName,
                                                   indexUsed |-> indexUsed]],
                                       p.searches)
    /\ pending' = Dequeue(p)
    /\ UNCHANGED <<now, received, engineVars>>

\* pre-generate after its await of searchWithFallback, which threw the
\* error of the search made last: the catch block of the handler
LocalePreGenerateFail(p) ==
    /\ p \in pending /\ p.endpoint = "pre-generate"
    /\ p.awaiting = "thrown" /\ p.job = 1
    /\ response' = LocaleResponse(p.id, "pre-generate", p.body, p.cacheKey, 500,
                       FALSE, 0,
                       [error |-> "Pre-generation failed", message |-> LastIndex(p),
                        indexAttempted |->
                            IndexNameToJSON(getIndexName(LocaleOrDefault(p.body)))],
                       p.searches)
    /\ pending' = Dequeue(p)
    /\ UNCHANGED <<cache, now, received, engineVars>>

(* searchWithFallback, for the handler that awaits it.  Its return and its
   throw settle the promise the handler awaits; the handler goes on in a
   later job, after the jobs queued before.  The searches are settled by
   the client, in the same turn of the event loop or in different ones *)

\* `return response` of searchWithFallback, the response that of the
\* search on indexName
SearchReturns(p, indexName) ==
    /\ pending' = (pending \ {p}) \cup
           {[p EXCEPT !.awaiting = "returned",
                      !.searches = Append(@, [index |-> indexName, ok |-> TRUE]),
                      !.job = Cardinality(QueuedHandlers) + 1]}
    /\ UNCHANGED <<cache, response, now, received, engineVars>>

\* `throw fallbackError` and `throw primaryError` of searchWithFallback,
\* the error that of the search on indexName
SearchThrows(p, indexName) ==
    /\ pending' = (pending \ {p}) \cup
           {[p EXCEPT !.awaiting = "thrown",
                      !.searches = Append(@, [index |-> indexName, ok |-> FALSE]),
                      !.job = Cardinality(QueuedHandlers) + 1]}
    /\ UNCHANGED <<cache, response, now, received, engineVars>>

\* searchWithFallback after await primaryIndex.search returned
PrimaryResolve(p) ==
    /\ p \in pending /\ p.awaiting = "primary"
    /\ SearchReturns(p, getIndexName(LocaleOrDefault(p.body)))

\* searchWithFallback after await primaryIndex.search threw: its catch
\* block, which starts the search on the fallback index or throws
PrimaryReject(p) ==
    /\ p \in pending /\ p.awaiting = "primary"
    /\ LET primaryIndexName == getIndexName(LocaleOrDefault(p.body))
           fallbackIndexName == ALGOLIA_INDEXES.default
       IN  IF HasOtherFallback(primaryIndexName, fallbackIndexName)
           THEN /\ pending' = (pending \ {p}) \cup
                       {[p EXCEPT !.awaiting = "fallback",
                                  !.searches = <<[index |-> primaryIndexName,
                                                  ok |-> FALSE]>>]}
                /\ UNCHANGED <<cache, response, now, received, engineVars>>
           ELSE SearchThrows(p, primaryIndexName)

\* searchWithFallback after await fallbackIndex.search returned
FallbackResolve(p) ==
    /\ p \in pending /\ p.awaiting = "fallback"
    /\ SearchReturns(p, ALGOLIA_INDEXES.default)

\* searchWithFallback after await fallbackIndex.search threw
FallbackReject(p) ==
    /\ p \in pending /\ p.awaiting = "fallback"
    /\ SearchThrows(p, ALGOLIA_INDEXES.default)

NextFallback ==
    \/ \E body \in LocaleBodies : LocaleReceive(body)
    \/ \E body \in LocalePreGenerateBodies : LocalePreGenerateReceive(body)
    \/ \E p \in pending : PrimaryResolve(p)
    \/ \E p \in pending : PrimaryReject(p)
    \/ \E p \in pending : FallbackResolve(p)
    \/ \E p \in pending : FallbackReject(p)
    \/ \E p \in pending : LocaleRespond(p)
    \/ \E p \in pending : LocaleFail(p)
    \/ \E p \in pending : LocalePreGenerateRespond(p)
    \/ \E p \in pending : LocalePreGenerateFail(p)

SpecFallback == InitServer /\ [][NextFallback]_vars

-----------------------------------------------------------------------------
(* Calls of the two functions while the server holds cache entries and
   searches of other requests are under way.  A call runs from its first
   statement to its return before the next handler runs, so the steps of
   the server are taken between calls only *)

MaxCallRequests == 2

\* requests with different cache keys
CallBodies ==
    { NearbyBody(Paris.lat, Paris.lng, Undefined, FALSE),
      NearbyBody(0, 0, Undefined, TRUE) }

\* the hits of a call: the products of scenario A, the first two at either
\* place, the second featured or not
CallHits(eng) ==
    {ScenarioAHits(eng, at, tiers) :
        at \in SUBSET {1, 2}, tiers \in IF eng = "collection" THEN {{}} ELSE {{}, {2}}}

\* a handler calls one of the two functions
EngineCall ==
    /\ EngineIdle
    /\ \E eng \in {"collection", "photo"} :
           engine' = eng /\ hits' \in CallHits(eng)
    /\ maxPerLocation' \in 1..MaxPer
    /\ targetProducts' = 3
    /\ pc' = "collapse"
    /\ UNCHANGED <<serverVars, uniqueProducts, productsByLocation, locationKeys,
                   locationIndex, locationCounts, iterations, result,
                   featuredQueue, regularQueue, withoutPhoto, photoCounters,
                   placements>>

\* the call returns to the handler
EngineReturn ==
    /\ pc = "done"
    /\ engine' = "none"
    /\ pc' = "idle"
    /\ hits' = <<>>
    /\ maxPerLocation' = 0
    /\ targetProducts' = 0
    /\ uniqueProducts' = <<>>
    /\ productsByLocation' = <<>>
    /\ locationKeys' = <<>>
    /\ locationIndex' = 0
    /\ locationCounts' = <<>>
    /\ iterations' = 0
    /\ result' = <<>>
    /\ featuredQueue' = <<>>
    /\ regularQueue' = <<>>
    /\ withoutPhoto' = <<>>
    /\ photoCounters' = <<>>
    /\ placements' = <<>>
    /\ UNCHANGED serverVars

CallReceive ==
    /\ EngineIdle /\ received < MaxCallRequests
    /\ \E body \in CallBodies : NearbyReceive(body)

CallResolve == EngineIdle /\ \E p \in pending : NearbyResolve(p)

CallTick == EngineIdle /\ Tick

NextCall ==
    \/ EngineCall
    \/ EngineReturn
    \/ CallReceive
    \/ CallResolve
    \/ CallTick
    \/ CollectionCollapse
    \/ CollectionGroup
    \/ CollectionIterate
    \/ CollectionReturn
    \/ PhotoCollapse
    \/ PhotoQueues
    \/ FeaturedIterate
    \/ FeaturedExit
    \/ RegularIterate
    \/ RegularExit
    \/ PhotoWithout

SpecCall == InitServer /\ [][NextCall]_vars

-----------------------------------------------------------------------------
(* Properties *)

Done == pc = "done"

\* Min(maxPer, group size), summed over the groups of a grouping
CappedSize(byKey, maxPer) ==
    SumSeq([i \in 1..Len(byKey) |-> Max(0, Min(maxPer, Len(byKey[i].val)))])

\* the tiers of the photo engine, grouped
TierGroups(featured) ==
    groupByLocationPhoto(hits,
        SelectSeq(uniqueProducts, LAMBDA p : isFeatured(hits[p]) = featured))

\* number of hits that survive collapsing and capping
SurvivorsOfCapping ==
    IF engine = "collection"
    THEN CappedSize(GroupByLocation(hits, uniqueProducts, <<>>), maxPerLocation)
    ELSE CappedSize(TierGroups(TRUE).productsByPhoto, maxPerLocation)
         + CappedSize(TierGroups(FALSE).productsByPhoto, maxPerLocation)
         + Len(TierGroups(TRUE).productsWithoutPhoto)
         + Len(TierGroups(FALSE).productsWithoutPhoto)

\* the key under which the running engine groups a hit
GroupKey(product) ==
    IF engine = "collection" THEN getLocationKey(product)
    ELSE getLocationPhoto(product)

\* number of positions of res whose hit has group key k
Occurrences(res, k) ==
    Cardinality({i \in 1..Len(res) : GroupKey(hits[res[i]]) = k})

\* C1: the output never has more hits than targetCount, nor more than the
\* hits that survived collapsing and capping (both engines; featured,
\* regular and photo-less hits counted together)
C1_BudgetRespected ==
    /\ Len(result) <= targetProducts
    /\ pc # "collapse" => Len(result) <= SurvivorsOfCapping

\* C1 witness: a call returned exactly targetCount hits although more
\* survived the capping
C1_Witness ==
    /\ Done
    /\ targetProducts > 0
    /\ Len(result) = targetProducts
    /\ SurvivorsOfCapping > targetProducts

\* C2: every output element is an input hit and no input position is
\* output twice
C2_NoHitTwice ==
    /\ \A i \in 1..Len(result) : result[i] \in 1..Len(hits)
    /\ \A i, j \in 1..Len(result) : i # j => result[i] # result[j]

\* C2 witness: a call returned two hits of one group
C2_Witness ==
    /\ Done
    /\ \E i, j \in 1..Len(result) :
          /\ i < j
          /\ IF engine = "collection"
             THEN getLocationKey(hits[result[i]]) = getLocationKey(hits[result[j]])
             ELSE /\ getLocationPhoto(hits[result[i]]) # ""
                  /\ getLocationPhoto(hits[result[i]]) = getLocationPhoto(hits[result[j]])

\* C3: no location key made of coordinates, place id or address is on more
\* than maxPerLocation hits of deduplicateForCollection's output
C3_GroupCapRespected ==
    engine = "collection" =>
        \A i \in 1..Len(result) :
            LET k == getLocationKey(hits[result[i]])
            IN  k.kind # "unique" =>
                    Occurrences(result, k) <= maxPerLocation

\* C3 witness: a group with more than maxPerLocation surviving hits has
\* exactly maxPerLocation hits in the output
C3_Witness ==
    /\ engine = "collection" /\ Done /\ maxPerLocation > 0
    /\ \E i \in 1..Len(result) :
          LET k == getLocationKey(hits[result[i]])
          IN  /\ k.kind # "unique"
              /\ Occurrences(result, k) = maxPerLocation
              /\ Occurrences(uniqueProducts, k) > maxPerLocation

\* C4: deduplicateForCollection places a hit with the location key of the
\* hit before it only if every group that still had a hit to place had
\* that key
C4_NoRepeatUnlessForced ==
    engine = "collection" =>
        \A n \in 1..Len(placements) :
            placements[n].prev = <<placements[n].key>>
                => placements[n].placeable \subseteq {placements[n].key}

\* C4 witness: the group of the last placed hit still had a hit to place
\* and the hit of another group was placed
C4_Witness ==
    /\ engine = "collection"
    /\ \E n \in 1..Len(placements) :
          /\ placements[n].prev # <<>>
          /\ placements[n].prev[1] \in placements[n].placeable
          /\ placements[n].key # placements[n].prev[1]

\* C5 as stated: deduplicateByLocationPhotoServer places a hit with the
\* location photo of the hit before it only if every photo group that
\* still had a placeable hit was that photo, also where the regular tier
\* starts after the featured tier
C5_Original ==
    engine = "photo" =>
        \A n \in 1..Len(placements) :
            placements[n].prev = <<placements[n].key>>
                => (placements[n].placeable \cup placements[n].later)
                       \subseteq {placements[n].key}

\* C5 amended: two consecutive hits placed from the same tier's queue have
\* the same location photo only if every photo group of that queue that
\* still had a placeable hit was that photo
C5_NoRepeatWithinTier ==
    engine = "photo" =>
        \A n \in 1..Len(placements) :
            (~placements[n].first /\ placements[n].prev = <<placements[n].key>>)
                => placements[n].placeable \subseteq {placements[n].key}

\* C5 witness: a regular hit was placed right after a regular hit with the
\* same photo, after hits of another photo
C5_Witness ==
    /\ engine = "photo"
    /\ \E n \in 1..Len(placements) :
          /\ ~placements[n].first
          /\ placements[n].tier = "regular"
          /\ placements[n].prev = <<placements[n].key>>
          /\ \E m \in 1..(n - 1) : placements[m].key # placements[n].key

\* C6 as stated: deduplicateForCollection returns fewer than targetCount
\* hits only when no group has a remaining hit that the cap still allows
C6_NeverStalls ==
    (engine = "collection" /\ Done /\ Len(result) < targetProducts)
        => PlaceableKeys = {}

\* all surviving hits are in one location group (one photo group)
OneGroup ==
    /\ Len(uniqueProducts) >= 2
    /\ IF engine = "collection"
       THEN \A i, j \in 1..Len(uniqueProducts) :
               getLocationKey(hits[uniqueProducts[i]])
                   = getLocationKey(hits[uniqueProducts[j]])
       ELSE \A i, j \in 1..Len(uniqueProducts) :
               /\ getLocationPhoto(hits[uniqueProducts[i]]) # ""
               /\ getLocationPhoto(hits[uniqueProducts[i]])
                      = getLocationPhoto(hits[uniqueProducts[j]])

\* C7 as stated: when all surviving hits share one group, either engine
\* returns exactly min(maxPerGroup, targetCount, surviving hits) hits
C7_OneGroupCapped ==
    (Done /\ OneGroup)
        => Len(result) = Min(maxPerLocation, Min(targetProducts, Len(uniqueProducts)))

\* the two places of scenario A, as group keys
ScenarioAKey(n) ==
    GroupKey(Hit(<<"art">>, Undefined, ScenarioAPlaces(engine)[n], ""))

\* C8 as stated: in scenario A either engine returns exactly 4 hits, at
\* most 2 of each place, and never places a hit of the first place right
\* after another one while a hit of the second place is still available
C8_Original ==
    /\ Done => Len(result) = 4
    /\ Occurrences(result, ScenarioAKey(1)) <= 2
    /\ Occurrences(result, ScenarioAKey(2)) <= 2
    /\ \A n \in 1..Len(placements) :
          (placements[n].key = ScenarioAKey(1)
              /\ placements[n].prev = <<ScenarioAKey(1)>>)
            => ScenarioAKey(2) \notin (placements[n].placeable \cup placements[n].later)

\* C8 amended: in scenario A either engine returns exactly 4 hits, at most
\* 2 of each place; deduplicateForCollection never places two hits of the
\* first place next to each other while a hit of the second place is
\* available, and deduplicateByLocationPhotoServer never does so with two
\* hits of the same tier while a hit of the second place is available in
\* that tier
C8_ScenarioA ==
    /\ Done => Len(result) = 4
    /\ Occurrences(result, ScenarioAKey(1)) <= 2
    /\ Occurrences(result, ScenarioAKey(2)) <= 2
    /\ \A n \in 1..Len(placements) :
          (~placements[n].first
              /\ placements[n].key = ScenarioAKey(1)
              /\ placements[n].prev = <<ScenarioAKey(1)>>)
            => ScenarioAKey(2) \notin placements[n].placeable

\* C8 witness: the call returned 4 hits and placed a hit of the second
\* place right after a hit of the first place that still had one to place
C8_Witness ==
    /\ Done /\ Len(result) = 4
    /\ \E n \in 1..Len(placements) :
          /\ placements[n].prev = <<ScenarioAKey(1)>>
          /\ placements[n].key = ScenarioAKey(2)
          /\ ScenarioAKey(1) \in placements[n].placeable

\* number of products still held by productsByLocation
Undrained ==
    SumSeq([i \in 1..Len(productsByLocation) |-> Len(productsByLocation[i].val)])

\* position in the call, counted from its end
Rank ==
    CASE pc = "collapse" -> 5
      [] pc \in {"group", "queues"} -> 4
      [] pc \in {"loop", "featured"} -> 3
      [] pc = "regular" -> 2
      [] pc = "without" -> 1
      [] pc \in {"done", "threw"} -> 0

\* a natural number that bounds the steps a call still may take
Measure ==
    Rank * (Len(hits) + 1)
    + (CASE pc = "loop" -> Undrained
         [] pc = "featured" -> Len(featuredQueue)
         [] pc = "regular" -> Len(regularQueue)
         [] OTHER -> 0)

\* C9: every iteration of the distribution loop of deduplicateForCollection
\* places exactly one hit, which takes one hit from the undrained ones, or
\* leaves the loop; every iteration of a queue draining loop of
\* deduplicateByLocationPhotoServer shortens its queue; every step of a
\* call decreases a natural number, and a loop that is reached can always
\* take a step (iterate or leave), so that every loop terminates
C9_Terminates ==
    /\ [][ /\ (pc = "loop" /\ pc' # "done")
                => /\ pc' = "loop"
                   /\ Len(result') = Len(result) + 1
                   /\ Undrained' = Undrained - 1
           /\ (pc = "featured" /\ pc' = "featured")
                => Len(featuredQueue') < Len(featuredQueue)
           /\ (pc = "regular" /\ pc' = "regular")
                => Len(regularQueue') < Len(regularQueue)
           /\ Measure' < Measure
           /\ Measure' >= 0
           /\ (pc \in {"loop", "featured", "regular"} => ENABLED Next)' ]_vars

\* C9 witness: deduplicateForCollection returned after a scan that placed
\* nothing, deduplicateByLocationPhotoServer after draining both queues
C9_Witness ==
    /\ Done
    /\ IF engine = "collection"
       THEN iterations = Len(result) + 1 /\ Len(result) >= 2
       ELSE /\ featuredQueue = <<>> /\ regularQueue = <<>>
            /\ Len(placements) >= 2 /\ Len(placements) < Len(uniqueProducts)

\* the BaseIdentity the running engine collapses by
BaseIdentity(product) ==
    IF engine = "collection" THEN getProductKey(product) ELSE getBaseHandle(product)

NoSharedIdentity(products) ==
    \A i, j \in 1..Len(products) :
        i # j => BaseIdentity(hits[products[i]]) # BaseIdentity(hits[products[j]])

\* C10: no two hits kept by the collapsing step of either engine have the
\* same BaseIdentity, and no two hits of the output have
C10_UniqueIdentities ==
    NoSharedIdentity(uniqueProducts) /\ NoSharedIdentity(result)

\* C10 witness: two input hits share a BaseIdentity and the call returned
\* at least two hits
C10_Witness ==
    /\ Done /\ Len(result) >= 2
    /\ \E i, j \in 1..Len(hits) :
          i # j /\ BaseIdentity(hits[i]) = BaseIdentity(hits[j])

\* C11 as stated: getProductKey applied to the key it returned gives that
\* key again, and so does getBaseHandle, for every handle
C11_Idempotent ==
    Len(result) = 2 => result[2] = result[1]

\* the hit at position i of the output is of the featured tier
FeaturedAt(i) == hits[result[i]].featured = "yes"

\* the hit at position i of the output has a location photo
PhotoAt(i) == hits[result[i]].details.location_photo # ""

\* C12 as stated: in the output of deduplicateByLocationPhotoServer no
\* regular hit is at an earlier position than a featured hit
C12_Original ==
    engine = "photo" =>
        \A i, j \in 1..Len(result) :
            i < j => ~(~FeaturedAt(i) /\ FeaturedAt(j))

\* C12 amended: in the output of deduplicateByLocationPhotoServer a regular
\* hit is at an earlier position than a featured hit only if the regular
\* hit has a location photo and the featured hit has none
C12_FeaturedFirst ==
    engine = "photo" =>
        \A i, j \in 1..Len(result) :
            (i < j /\ ~FeaturedAt(i) /\ FeaturedAt(j))
                => (PhotoAt(i) /\ ~PhotoAt(j))

\* C12 witness: the call returned a featured hit with a location photo, then
\* a regular hit with a location photo, then a featured hit without one
C12_Witness ==
    /\ engine = "photo" /\ Done
    /\ \E i, j, k \in 1..Len(result) :
          /\ i < j /\ j < k
          /\ FeaturedAt(i) /\ PhotoAt(i)
          /\ ~FeaturedAt(j) /\ PhotoAt(j)
          /\ FeaturedAt(k) /\ ~PhotoAt(k)

\* the call threw instead of returning
Threw == pc = "threw"

\* C13 as stated: called without hits or with no hits, either engine
\* returns an empty output and throws nothing
C13_EmptyOrMissing ==
    (hits = NoHits \/ hits = <<>>) => (~Threw /\ result = <<>>)

\* C14 as stated: called with a hit sequence and a target count of zero or
\* below, either engine places nothing and throws nothing
C14_NothingPlaced ==
    (hits # NoHits /\ targetProducts <= 0) => (~Threw /\ result = <<>>)

\* C15 as stated: called with a sequence of hit records, whatever optional
\* fields they lack, either engine throws nothing
C15_NeverThrows ==
    hits # NoHits => ~Threw

\* C16 as stated: every hit of the output of either engine has a handle
\* and a title
C16_FieldsPresent ==
    \A i \in 1..Len(result) :
        /\ hits[result[i]].handle # Undefined
        /\ hits[result[i]].title # Undefined

\* the cache holds an entry for cacheKey that is younger than 24 hours at
\* instant t
YoungEntry(c, cacheKey, t) ==
    \E i \in 1..Len(c) :
        /\ c[i].key = cacheKey
        /\ t - c[i].val.timestamp < 24 * 60 * 60 * 1000

\* the request of id received' was answered in this step without a search
AnsweredAtOnce == received' # received /\ response'.id = received'

\* C17 as stated: a search is started for a request only when the cache
\* holds no entry for its key that is younger than 24 hours, and a
\* response served from the cache comes from such an entry
C17_Original ==
    [][/\ \A p \in pending' \ pending : ~YoungEntry(cache, p.cacheKey, now)
       /\ (AnsweredAtOnce /\ response'.cached) =>
              YoungEntry(cache, response'.cacheKey, now)]_vars

\* C17 amended: a search is started for a request only when the cache
\* holds no entry for its key that is younger than 24 hours or the request
\* is a pre-generate-collection request with forceRegenerate; the engine
\* runs only for a request whose search was started; a response served
\* from the cache carries the data of an entry younger than 24 hours
C17_MissOrForced ==
    [][/\ \A p \in pending' \ pending :
              \/ ~YoungEntry(cache, p.cacheKey, now)
              \/ (p.endpoint = "pre-generate" /\ p.body.forceRegenerate)
       /\ (response' # response /\ response'.status = 200 /\ ~response'.cached) =>
              \E p \in pending \ pending' : p.id = response'.id
       /\ (AnsweredAtOnce /\ response'.cached) =>
              /\ YoungEntry(cache, response'.cacheKey, now)
              /\ response'.data = MapGet(cache, response'.cacheKey).data]_vars

\* a response was served from the cache, and a later request with an entry
\* of 24 hours or more for its key waits for its search
C17_Witness ==
    /\ response.cached
    /\ \E p \in pending :
           /\ p.id > response.id
           /\ (p.endpoint = "pre-generate" => ~p.body.forceRegenerate)
           /\ MapHas(cache, p.cacheKey)
           /\ ~YoungEntry(cache, p.cacheKey, now)

\* C18 as stated: a nearby-search response served from the cache comes
\* from an entry whose writer agreed with the request on lat, lng,
\* radiusKm, hitsPerPage, maxPerLocation, currentHandle and fallback, and
\* contains no hit with the handle the request excludes
C18_KeyedByParameters ==
    (response.endpoint = "nearby" /\ response.cached) =>
        /\ response.writer.lat = response.body.lat
        /\ response.writer.lng = response.body.lng
        /\ response.writer.radiusKm = response.body.radiusKm
        /\ response.writer.hitsPerPage = response.body.hitsPerPage
        /\ response.writer.maxPerLocation = response.body.maxPerLocation
        /\ response.writer.currentHandle = response.body.currentHandle
        /\ response.writer.fallback = response.body.fallback
        /\ \A i \in 1..Len(response.data.hits) :
               response.data.hits[i].handle # response.body.currentHandle

\* the body of a pending request lacks a required parameter
LacksParameters(p) ==
    IF p.endpoint = "nearby"
    THEN ~p.body.fallback /\ (p.body.lat = 0 \/ p.body.lng = 0)
    ELSE p.body.lat = 0 \/ p.body.lng = 0 \/ p.body.cityName = ""

\* a request ends with a 500 response, or is rejected with 400, without a
\* change of the cache; a request lacking a parameter starts no search
FailureLeavesCache ==
    /\ \A p \in pending \ pending' :
           /\ response'.id = p.id
           /\ response'.status \in {200, 500}
           /\ response'.status = 500 => cache' = cache
    /\ (response' # response /\ response'.status \in {400, 500}) => cache' = cache
    /\ (response' # response /\ response'.status = 400) => pending' = pending
    /\ \A p \in pending' \ pending : ~LacksParameters(p)

\* the request answered at once, directly after a 500 response for the
\* same key
AnsweredAfterFailure ==
    /\ response.status = 500
    /\ AnsweredAtOnce
    /\ response'.status = 200
    /\ response'.cacheKey = response.cacheKey

\* C19 as stated: a failed search ends with a 500 response and rejected
\* parameters with 400, both without a change of the cache and the latter
\* without a search, and the next request with the key of the failed one
\* performs the search
C19_Original ==
    [][FailureLeavesCache /\ ~AnsweredAfterFailure]_vars

\* C19 amended: as C19_Original, but the next request with the key of the
\* failed one performs the search unless the cache holds an entry for the
\* key that is younger than 24 hours
C19_FailureNotCached ==
    [][/\ FailureLeavesCache
       /\ AnsweredAfterFailure => YoungEntry(cache, response.cacheKey, now)]_vars

\* a search failed while the cache holds an entry younger than 24 hours
\* for the key of the request
C19_Witness ==
    /\ response.status = 500
    /\ YoungEntry(cache, response.cacheKey, now)

\* C20 as stated: no hit is kept by the collapsing step of either engine
\* if an earlier hit of the input has the same BaseIdentity
C20_FirstOfIdentity ==
    \A i \in 1..Len(uniqueProducts) :
        \A j \in 1..(uniqueProducts[i] - 1) :
            BaseIdentity(hits[j]) # BaseIdentity(hits[uniqueProducts[i]])

\* the collapsing step of deduplicateForCollection is over
Collapsed == engine = "collection" /\ pc \in {"group", "loop", "done"}

\* C21: among the hits deduplicateForCollection keeps, the title of a hit
\* is not judged similar at threshold 0.8 to the title of any hit kept
\* before it, the immediately preceding one or not
C21_NoSimilarKept ==
    Collapsed =>
        \A j \in 1..Len(uniqueProducts) : \A i \in 1..(j - 1) :
            ~areTitlesSimilar(TitleOrEmpty(hits[uniqueProducts[j]]),
                              hits[uniqueProducts[i]].title, 8)

\* C21 witness: the third hit was dropped for its title, which is similar
\* to the title of the first hit and not to that of the second, the one
\* kept immediately before
C21_Witness ==
    /\ Collapsed /\ Len(hits) = 3 /\ uniqueProducts = <<1, 2>>
    /\ getProductKey(hits[3]) \notin {getProductKey(hits[1]), getProductKey(hits[2])}
    /\ areTitlesSimilar(hits[3].title, hits[1].title, 8)
    /\ ~areTitlesSimilar(hits[3].title, hits[2].title, 8)

\* two titles are non-empty and equal after lowercasing and trimming
EqualNormalized(title1, title2) ==
    /\ ~TitleFalsy(title1) /\ ~TitleFalsy(title2)
    /\ LowerTrim(title1) = LowerTrim(title2)

\* C22: two non-empty titles that are equal after lowercasing and trimming
\* are judged similar at every threshold, and of two hits with such titles
\* deduplicateForCollection keeps the first only
C22_ExactMatchSimilar ==
    /\ (pc = "judged" /\ EqualNormalized(hits[1].title, hits[2].title)) =>
           result[1].similar
    /\ (Collapsed /\ Len(hits) = 2 /\ EqualNormalized(hits[1].title, hits[2].title)) =>
           uniqueProducts = <<1>>

\* C22 witness: two titles in different spellings, equal after lowercasing
\* and trimming, were judged similar at threshold 1.1
C22_Witness ==
    /\ pc = "judged"
    /\ hits[1].title # hits[2].title
    /\ EqualNormalized(hits[1].title, hits[2].title)
    /\ result[1].threshold > 10
    /\ result[1].similar

\* number of regular hits with location photo k in the output
RegularPlaced(k) ==
    Cardinality({i \in 1..Len(result) :
        ~isFeatured(hits[result[i]]) /\ getLocationPhoto(hits[result[i]]) = k})

\* number of regular hits with location photo k that survived collapsing
RegularSurvivors(k) ==
    Cardinality({i \in 1..Len(uniqueProducts) :
        /\ ~isFeatured(hits[uniqueProducts[i]])
        /\ getLocationPhoto(hits[uniqueProducts[i]]) = k})

\* C23 as stated: when deduplicateByLocationPhotoServer returns fewer hits
\* than maxResults, every location photo has as many regular hits in the
\* output as it has regular survivors, up to maxPerPhoto, however many
\* featured hits of that photo are in the output
C23_CapPerTier ==
    (engine = "photo" /\ Done /\ Len(result) < targetProducts) =>
        \A p \in 1..Len(uniqueProducts) :
            LET k == getLocationPhoto(hits[uniqueProducts[p]])
            IN  k # "" => RegularPlaced(k) = Min(maxPerLocation, RegularSurvivors(k))

\* number of hits of the output that have a location photo
PlacedWithPhoto == Cardinality({i \in 1..Len(result) : PhotoAt(i)})

\* the surviving hits without location photo: the featured ones, then the
\* regular ones, each in the order of the input
SurvivorsWithoutPhoto ==
    SelectSeq(uniqueProducts,
              LAMBDA p : isFeatured(hits[p]) /\ getLocationPhoto(hits[p]) = "")
    \o SelectSeq(uniqueProducts,
                 LAMBDA p : ~isFeatured(hits[p]) /\ getLocationPhoto(hits[p]) = "")

\* what the budget leaves for the hits without location photo
SlotsWithoutPhoto ==
    Min(Len(SurvivorsWithoutPhoto), Max(0, targetProducts - PlacedWithPhoto))

\* C24: in the output of deduplicateByLocationPhotoServer the hits without
\* location photo follow all hits with one; they are the featured ones and
\* then the regular ones among the survivors, whatever maxPerPhoto is, cut
\* to maxResults minus the number of hits placed before them
C24_WithoutPhotoLast ==
    (engine = "photo" /\ Done) =>
        /\ \A i \in 1..Len(result) : PhotoAt(i) <=> i <= PlacedWithPhoto
        /\ SubSeq(result, PlacedWithPhoto + 1, Len(result))
               = SubSeq(SurvivorsWithoutPhoto, 1, SlotsWithoutPhoto)

\* C24 witness: after a hit with location photo the output holds more hits
\* without photo than maxPerPhoto, a featured one placed before a regular
\* one that precedes it in the input, and the budget cut a further one off
C24_Witness ==
    /\ engine = "photo" /\ Done
    /\ PlacedWithPhoto >= 1
    /\ Len(result) - PlacedWithPhoto > maxPerLocation
    /\ Len(SurvivorsWithoutPhoto) > SlotsWithoutPhoto
    /\ \E i \in (PlacedWithPhoto + 1)..(Len(result) - 1) :
           FeaturedAt(i) /\ ~FeaturedAt(i + 1) /\ result[i] > result[i + 1]

\* the tier of the priority chain that the location details select
KeyTier(details) ==
    IF details.latitude # 0 /\ details.longitude # 0 THEN "coordinates"
    ELSE IF details.google_id # "" THEN "google_id"
    ELSE IF details.formatted_address # "" THEN "address"
    ELSE "unique"

\* C25 as stated: getLocationKey fails for no hit, and the key under which
\* deduplicateForCollection groups a hit is of the first tier for which
\* the hit has the data: both coordinates, else the place id, else the
\* formatted address, else the hit itself
C25_KeyByPriority ==
    /\ ~Threw
    /\ (engine = "collection" /\ pc = "loop" /\ iterations = 0) =>
           \A i \in 1..Len(productsByLocation) :
               \A j \in 1..Len(productsByLocation[i].val) :
                   productsByLocation[i].key.kind
                       = KeyTier(hits[productsByLocation[i].val[j]].details)

\* the survivors that are among the first maxPer of their location group
FirstOfGroups(hs, unique, maxPer) ==
    SelectSeq(unique, LAMBDA p :
        Cardinality({i \in 1..Len(unique) :
            /\ unique[i] <= p
            /\ getLocationKey(hs[unique[i]]) = getLocationKey(hs[p])}) <= maxPer)

\* what the distribution loop returns for the survivors `unique` when no
\* count reaches the cap
DistributeUncapped(hs, unique, target) ==
    LET byLocation == GroupByLocation(hs, unique, <<>>)
    IN  DistributeByLocation(hs, Len(hs) + 1, target, Len(unique) * 2,
            [productsByLocation |-> byLocation,
             locationKeys |-> MapKeys(byLocation),
             locationIndex |-> 0,
             locationCounts |-> <<>>,
             iterations |-> 0,
             result |-> <<>>])

\* C29 as stated: deduplicateForCollection returns what its distribution
\* loop returns, with no cap check, for the first maxPerLocation survivors
\* of each location group
C29_CapIsPreFilter ==
    (engine = "collection" /\ Done) =>
        result = DistributeUncapped(hits,
                     FirstOfGroups(hits, uniqueProducts, maxPerLocation),
                     targetProducts)

\* the location group at which the scan of the next iteration starts
ScanStart == locationKeys[currentLocationIndex(0)]

\* the next iteration of the while loop places a hit
NextIterationPlaces ==
    /\ engine = "collection" /\ pc = "loop"
    /\ LoopCondition
    /\ \E i \in 0..(Len(locationKeys) - 1) : PlacesAt(i)

\* an iteration of the while loop places a hit
Placement == NextIterationPlaces /\ Len(result') = Len(result) + 1

\* C30 as stated: each placement of deduplicateForCollection moves
\* locationIndex one position on in the list of the groups that still
\* have hits, and when two groups or more still have hits and a further
\* hit is placed, the scan for it starts at another group than the scan of
\* this placement, whether or not the placement removed a group from the
\* list
C30_ScanStartAdvances ==
    [][Placement =>
          /\ locationIndex' = (locationIndex + 1) % Max(1, Len(locationKeys'))
          /\ (Len(locationKeys') >= 2 /\ NextIterationPlaces') =>
                 ScanStart' # ScanStart]_vars

\* the hit at position p of the input has a style name, and it is the one
\* of the hit placed last
StyleConflict(p) ==
    /\ result # <<>>
    /\ hits[p].details.styleName # ""
    /\ hits[p].details.styleName = hits[result[Len(result)]].details.styleName

\* C26 as stated: deduplicateForCollection places a hit whose style name
\* is that of the hit placed last only when the next hit of every group
\* that could be placed at this point has that style name too
C26_StyleAdjacency ==
    [][(Placement /\ StyleConflict(result'[Len(result')])) =>
          \A i \in 0..(Len(locationKeys) - 1) :
              PlacesAt(i) =>
                  StyleConflict(Head(MapGet(productsByLocation,
                                            locationKeys[currentLocationIndex(i)])))]_vars

\* C27: the hits deduplicateForCollection keeps after collapsing are in
\* the order of the input, and so are, in what it returns, the hits of one
\* location group
C27_OrderPreserved ==
    engine = "collection" =>
        /\ \A i \in 1..Len(uniqueProducts) : \A j \in (i + 1)..Len(uniqueProducts) :
               uniqueProducts[i] < uniqueProducts[j]
        /\ \A i \in 1..Len(result) : \A j \in (i + 1)..Len(result) :
               getLocationKey(hits[result[i]]) = getLocationKey(hits[result[j]])
                   => result[i] < result[j]

\* C27 witness: a hit between two others was collapsed, and the returned
\* hits include two of one location group with a hit of another group
\* placed between them
C27_Witness ==
    /\ engine = "collection" /\ Done
    /\ \E p \in 2..(Len(hits) - 1) :
           \A i \in 1..Len(uniqueProducts) : uniqueProducts[i] # p
    /\ \E i \in 1..Len(result) : \E j \in (i + 2)..Len(result) :
           getLocationKey(hits[result[i]]) = getLocationKey(hits[result[j]])

\* a call of deduplicateForCollection or of deduplicateByLocationPhotoServer
\* is in progress, or is about to return
InCall == engine # "none"

\* what the call in progress returns, computed from its arguments alone
ResultOfArguments ==
    IF engine = "collection"
    THEN deduplicateForCollection(hits, maxPerLocation, targetProducts)
    ELSE deduplicateByLocationPhotoServer(hits, targetProducts, maxPerLocation).result

\* C28: a step of a call of either function leaves the hits, the cache
\* and the rest of the server's state as they are, and the call returns
\* what its arguments alone determine, whatever the cache holds and
\* whichever searches of other requests are under way
C28_EngineFrame ==
    [][InCall =>
          /\ InCall' => hits' = hits
          /\ serverVars' = serverVars
          /\ Done => result = ResultOfArguments]_vars

\* C28 witness: a call returned hits while the cache held an entry and the
\* search of another request was under way
C28_Witness ==
    /\ engine # "none" /\ Done
    /\ Len(result) >= 2
    /\ Len(cache) >= 1
    /\ pending # {}

\* number of returned hits of the location group `key`
Contributed(key) ==
    Cardinality({i \in 1..Len(result) : getLocationKey(hits[result[i]]) = key})

\* the location groups of the hits that survived collapsing
SurvivorKeys ==
    {getLocationKey(hits[uniqueProducts[i]]) : i \in 1..Len(uniqueProducts)}

\* C31 as stated: when deduplicateForCollection returns targetProducts
\* hits, no location group has two hits among them while another group
\* of the survivors has none
C31_FairRoundRobin ==
    (engine = "collection" /\ Done /\ Len(result) = targetProducts) =>
        \A k1 \in SurvivorKeys : \A k2 \in SurvivorKeys :
            ~(Contributed(k1) >= 2 /\ Contributed(k2) = 0)

\* C32 as stated: at threshold 0.8 areTitlesSimilar gives the same answer
\* for two titles in either order
C32_TitlesSymmetric ==
    (pc = "judged" /\ result[1].threshold = 8) =>
        result[1].similar = areTitlesSimilar(hits[2].title, hits[1].title, 8)

\* number of returned hits with location photo k, of either tier
PhotoPlaced(k) ==
    Cardinality({i \in 1..Len(result) : getLocationPhoto(hits[result[i]]) = k})

\* C33: in what deduplicateByLocationPhotoServer returns, no location
\* photo is on more than maxPerPhoto hits, featured and regular hits
\* counted together
C33_TotalPhotoCap ==
    (engine = "photo" /\ Done) =>
        \A i \in 1..Len(result) :
            PhotoAt(i) =>
                PhotoPlaced(getLocationPhoto(hits[result[i]])) <= maxPerLocation

\* C33 witness: the call returned fewer hits than maxResults; the featured
\* hits of a photo fill its cap, and a regular survivor of that photo was
\* left out
C33_Witness ==
    /\ engine = "photo" /\ Done
    /\ Len(result) < targetProducts
    /\ \E i \in 1..Len(result) :
           LET k == getLocationPhoto(hits[result[i]])
           IN  /\ PhotoAt(i) /\ FeaturedAt(i)
               /\ PhotoPlaced(k) = maxPerLocation
               /\ RegularSurvivors(k) >= 1
               /\ RegularPlaced(k) = 0

\* C36 as stated: when no request to nearby-search or to
\* pre-generate-collection is under way, the cache holds at most 1000
\* entries
C36_CacheBounded ==
    pending = {} => Len(cache) <= CacheSizeLimit

\* C37 as stated: no two nearby-search requests with the same cache key
\* await a search at the same time
C37_SingleSearchPerKey ==
    \A p \in pending : \A q \in pending :
        (p.endpoint = "nearby" /\ q.endpoint = "nearby" /\ p.cacheKey = q.cacheKey)
            => p = q

\* a response of the locale server for which searchWithFallback was called
Searched == response.id > 0 /\ response.status \in {200, 500} /\ ~response.cached

\* C34: searchWithFallback searches the primary index of the locale first
\* and the default index only after that search failed and only if it is
\* another index; it makes two searches at most, returns the response of
\* the first search that succeeds, and throws the error of the last search
\* it made when none does
C34_FallbackAfterFailure ==
    /\ \A p \in pending :
           LET primaryIndexName == getIndexName(LocaleOrDefault(p.body))
           IN  /\ p.awaiting = "primary" => p.searches = <<>>
               /\ p.awaiting = "fallback" =>
                      /\ p.searches = <<[index |-> primaryIndexName, ok |-> FALSE]>>
                      /\ primaryIndexName # ALGOLIA_INDEXES.default
               /\ p.awaiting \in {"returned", "thrown"} =>
                      /\ Len(p.searches) \in {1, 2}
                      /\ p.searches[1].index = primaryIndexName
                      /\ p.searches[Len(p.searches)].ok = (p.awaiting = "returned")
    /\ Searched =>
           LET searches == response.searches
               last == searches[Len(searches)]
           IN  /\ Len(searches) \in {1, 2}
               /\ searches[1].index = getIndexName(LocaleOrDefault(response.body))
               /\ Len(searches) = 2 =>
                      /\ ~searches[1].ok
                      /\ searches[2].index = ALGOLIA_INDEXES.default
                      /\ searches[2].index # searches[1].index
               /\ (~last.ok /\ Len(searches) = 1) =>
                      last.index = ALGOLIA_INDEXES.default
               /\ response.status = 200 =>
                      /\ last.ok
                      /\ IF response.endpoint = "nearby"
                         THEN response.data.hits
                                  = LocaleData(response.body, last.index).hits
                         ELSE \E r \in LocalePreGenerateResponseData :
                                  /\ r.body = response.body
                                  /\ r.indexName = last.index
                                  /\ response.data.html = r.made.html
               /\ ~last.ok =>
                      response.status = 500 /\ response.data.message = last.index

\* C34 witness: the search on the German index failed for a request of
\* nearby-search with locale 'De', the default index was searched next,
\* and the response holds its hits
C34_Witness ==
    /\ Searched /\ response.status = 200 /\ response.endpoint = "nearby"
    /\ response.body.locale = <<Character("D", "d"), Character("e", "e")>>
    /\ response.searches = <<[index |-> ALGOLIA_INDEXES.de, ok |-> FALSE],
                             [index |-> ALGOLIA_INDEXES.default, ok |-> TRUE]>>
    /\ response.data.hits = LocaleData(response.body, ALGOLIA_INDEXES.default).hits
    /\ response.data.hits # LocaleData(response.body, ALGOLIA_INDEXES.de).hits

\* C35 as stated: the indexUsed of a response of nearby-search, fresh or
\* from the cache, is the index whose search produced its hits
C35_IndexUsedIsSource ==
    (response.id > 0 /\ response.status = 200 /\ response.endpoint = "nearby") =>
        response.data.indexUsed = response.searches[Len(response.searches)].index

====
